---- MODULE Spec2Model ----
(***************************************************************************)
(* A model of doc-retrieval's extraction pipeline: the adaptive            *)
(* RateLimiter (utils/rate_limiter.py), the retry wrapper of the fetchers  *)
(* (fetcher/base.py) and the coordination done by Orchestrator.run and     *)
(* Orchestrator._process_page (orchestrator.py).                           *)
(*                                                                         *)
(* Times and delays are integers counting 1/1024 s, so that the doubling   *)
(* and halving the code does on binary floats are exact here as well.      *)
(***************************************************************************)
EXTENDS Integers, Sequences, FiniteSets, TLC

VARIABLES
    \* ---- RateLimiter (utils/rate_limiter.py) ----
    delay_seconds,        \* self.delay_seconds
    original_delay,       \* self._original_delay
    backoff_count,        \* self.backoff_count
    peak_delay,           \* self.peak_delay
    permits,              \* self._semaphore._value
    lock,                 \* holder of self._lock, 0 when free
    last_request_time,    \* self._last_request_time
    \* ---- history of back_off / ease_off calls on a bare limiter ----
    opLog,                \* the calls made so far, "b" or "e", oldest first
    \* ---- the clock and the callers of acquire()/release() ----
    now,                  \* time.monotonic()
    cPc,                  \* caller -> position inside acquire()/release()
    cWake,                \* caller -> time its asyncio.sleep(wait_time) ends
    cDelay,               \* caller -> self.delay_seconds as its pacing check read it
    starts,               \* the values written to _last_request_time, in order
    \* ---- one call of BaseFetcher.fetch_with_retry ----
    rPc,                  \* position inside fetch_with_retry
    rMaxRetries,          \* its max_retries argument
    rBaseDelay,           \* its base_delay argument
    rAttempt,             \* the loop variable attempt
    rResult,              \* the local variable result
    rCalls,               \* results of the self.fetch calls made, oldest first
    rSleeps,              \* the sleeps made: after which attempt, and how long
    \* ---- Orchestrator.run ----
    config,               \* the parts of AppConfig that run() reads
    runPc,                \* position inside run()
    urls,                 \* the local list urls
    probe_result,         \* the local probe_result (NoResult for None)
    page_timings,         \* result.page_timings
    pages,                \* result.pages (the url of each FormattedPage)
    errors,               \* result.errors
    skipped,              \* result.skipped
    skipped_categories,   \* result.skipped_categories
    \* ---- the _process_page task of each entry of urls ----
    tPc,                  \* task -> position inside _process_page
    tFetch,               \* task -> fetch_result (NoResult before there is one)
    tAttempt,             \* task -> attempt of its fetch_with_retry loop
    \* ---- history of a run ----
    fetches,              \* url -> number of fetcher.fetch(url) calls made
    acquired,             \* task -> times rate_limiter.acquire() returned to it
    released,             \* task -> times it called rate_limiter.release()
    backoffs,             \* task -> times it called rate_limiter.back_off()
    eases,                \* task -> times it called rate_limiter.ease_off()
    statusLog,            \* task -> every value given to its timing.status
    postDedup,            \* len(urls) right after deduplication
    \* ---- what lasts from one run to a later one ----
    discovered,           \* the URLs the discoverer yields
    failed_urls_file,     \* lines of .failed-urls.txt (NoFile: not there)
    skip_urls_file,       \* lines of the file given as --skip-urls, if any
    runNo,                \* 1 in the first run, 2 in the later one
    \* ---- one call of a pure function ----
    fnPc,                 \* "ready" before the call, "done" after it
    fnArgs,               \* the arguments of the call
    fnResult,             \* what the call returned
    \* ---- PlaywrightFetcher ----
    _pool_size,           \* self._pool_size
    _page_pool,           \* the pages in the queue self._page_pool, oldest first
    fPage,                \* caller -> the page its fetch() took, 0 for none
    pagesMade,            \* number of new_page() calls that returned a page
    fPc,                  \* caller -> position inside fetch()
    fCalls                \* number of fetch() calls made so far

rlVars == <<delay_seconds, original_delay, backoff_count, peak_delay,
            permits, lock, last_request_time>>
logVars == <<opLog>>
paceVars == <<now, cPc, cWake, cDelay, starts>>
retryVars == <<rPc, rMaxRetries, rBaseDelay, rAttempt, rResult, rCalls, rSleeps>>
laterVars == <<discovered, failed_urls_file, skip_urls_file, runNo>>
runVars == <<config, runPc, urls, probe_result, page_timings, pages, errors,
             skipped, skipped_categories, tPc, tFetch, tAttempt, fetches,
             acquired, released, backoffs, eases, statusLog, postDedup, laterVars>>
fnVars == <<fnPc, fnArgs, fnResult>>
poolVars == <<_pool_size, _page_pool, fPage, pagesMade, fPc, fCalls>>
vars == <<rlVars, fnVars, poolVars, logVars, paceVars, retryVars, runVars>>

Min(a, b) == IF a <= b THEN a ELSE b
Max(a, b) == IF a >= b THEN a ELSE b

RECURSIVE Pow2(_)
Pow2(k) == IF k = 0 THEN 1 ELSE 2 * Pow2(k - 1)

\* One second, in the model's time unit.
Second == Pow2(10)

(***************************************************************************)
(* RateLimiter: the adaptive delay                                         *)
(***************************************************************************)

\* RateLimiter._MAX_DELAY = 5.0
_MAX_DELAY == 5 * Second

\* RateLimiter._init_(delay_seconds, max_concurrent)
RateLimiterInit(delay, max_concurrent) ==
    /\ delay_seconds = delay
    /\ original_delay = delay
    /\ permits = max_concurrent
    /\ last_request_time = 0
    /\ lock = 0
    /\ backoff_count = 0
    /\ peak_delay = delay

\* A back_off() that forgets the cap.
back_off_uncapped ==
    /\ delay_seconds' = delay_seconds * 2
    /\ backoff_count' = backoff_count + 1
    /\ peak_delay' = Max(peak_delay, delay_seconds')

\* RateLimiter.back_off()
back_off ==
    /\ delay_seconds' = Min(delay_seconds * 2, _MAX_DELAY)
    /\ backoff_count' = backoff_count + 1
    /\ peak_delay' = Max(peak_delay, delay_seconds')

\* RateLimiter.ease_off(); x / 2 is exact on every delay the model reaches
\* (see DelayChoices), except where the floor is original_delay anyway.
ease_off ==
    delay_seconds' = Max(delay_seconds \div 2, original_delay)

\* RateLimiter.is_throttled
is_throttled == delay_seconds > original_delay

(***************************************************************************)
(* A bare RateLimiter driven by back_off() and ease_off() calls            *)
(***************************************************************************)

\* Longest sequence of back_off()/ease_off() calls followed.
MaxCalls == 5

\* Initial delays: RateLimitConfig accepts 0 <= delay_seconds <= 60.  The
\* values are 0 or at least 5/1024 s, so that halving down from _MAX_DELAY
\* (5 * 2^10 units) never meets an odd number above original_delay.
DelayChoices ==
    {0, 5, Second \div 10, Second, 3 * Second, 5 * Second, 6 * Second, 60 * Second}

\* The variables a specification does not use stay at these values.
IdleLog == opLog = <<>>
IdleFn == fnPc = "idle" /\ fnArgs = <<>> /\ fnResult = <<>>
IdlePool ==
    /\ _pool_size = 0 /\ _page_pool = <<>> /\ fPage = <<>> /\ pagesMade = 0
    /\ fPc = <<>> /\ fCalls = 0
IdlePace ==
    now = 0 /\ cPc = <<>> /\ cWake = <<>> /\ cDelay = <<>> /\ starts = <<>>
IdleRetry ==
    /\ rPc = "idle" /\ rMaxRetries = 0 /\ rBaseDelay = 0 /\ rAttempt = 0
    /\ rResult = <<>> /\ rCalls = <<>> /\ rSleeps = <<>>
IdleRun ==
    /\ config = <<>> /\ runPc = "idle" /\ urls = <<>> /\ probe_result = <<>>
    /\ page_timings = <<>> /\ pages = <<>> /\ errors = <<>> /\ skipped = <<>>
    /\ skipped_categories = <<>> /\ tPc = <<>> /\ tFetch = <<>>
    /\ tAttempt = <<>> /\ fetches = <<>> /\ acquired = <<>>
    /\ released = <<>> /\ backoffs = <<>> /\ eases = <<>> /\ statusLog = <<>>
    /\ postDedup = 0
    /\ discovered = <<>> /\ failed_urls_file = <<>>
    /\ skip_urls_file = <<>> /\ runNo = 1

InitDelay ==
    /\ \E d \in DelayChoices : RateLimiterInit(d, 1)
    /\ IdleFn /\ IdlePool /\ IdleLog /\ IdlePace /\ IdleRetry /\ IdleRun

\* A caller invokes rate_limiter.back_off().
CallBackOff ==
    /\ Len(opLog) < MaxCalls
    /\ back_off
    /\ opLog' = Append(opLog, "b")
    /\ UNCHANGED <<original_delay, permits, lock, last_request_time>>
    /\ UNCHANGED <<fnVars, poolVars, paceVars, retryVars, runVars>>

\* A caller invokes rate_limiter.ease_off().
CallEaseOff ==
    /\ Len(opLog) < MaxCalls
    /\ ease_off
    /\ opLog' = Append(opLog, "e")
    /\ UNCHANGED <<original_delay, backoff_count, peak_delay, permits, lock,
                   last_request_time>>
    /\ UNCHANGED <<fnVars, poolVars, paceVars, retryVars, runVars>>

NextDelay == CallBackOff \/ CallEaseOff

SpecDelay == InitDelay /\ [][NextDelay]_vars

\* The number of leading "b" entries of a call history.
RECURSIVE LeadingBackOffs(_)
LeadingBackOffs(log) ==
    IF log = <<>> \/ Head(log) # "b" THEN 0 ELSE 1 + LeadingBackOffs(Tail(log))

\* C7: back_off() applied k times (k >= 1) from initial delay d yields
\* delay_seconds = min(d * 2^k, cap) with cap = 5.0 s, and one ease_off()
\* after those k back-offs yields max(that delay / 2, d), which is never
\* below d.
C7_BackOffEaseOffFormula ==
    LET k == LeadingBackOffs(opLog)
        d == original_delay
        backed == Min(d * Pow2(k), 5 * Second)
    IN  /\ (k >= 1 /\ Len(opLog) = k) =>
              /\ delay_seconds = backed
              /\ backoff_count = k
        /\ (k >= 1 /\ Len(opLog) = k + 1) =>
              /\ 2 * delay_seconds = Max(backed, 2 * d)
              /\ delay_seconds >= d

\* C7 witness: three back-offs from 3 s have hit the cap and one ease_off
\* followed, landing on the original delay.
C7_Witness ==
    /\ opLog = <<"b", "b", "b", "e">>
    /\ original_delay = 3 * Second
    /\ delay_seconds = 3 * Second
    /\ peak_delay = 5 * Second

(***************************************************************************)
(* FetchResult and BaseFetcher.fetch_with_retry                            *)
(***************************************************************************)

\* None, for probe_result, fetch_result and FetchResult.retry_after.
NoResult == <<>>
NoRetryAfter == -1

\* A response that came without a redirect has no location.
NoLocation == <<>>

\* What one fetcher.fetch(url) call can return: the status code, error and
\* retry_after of its FetchResult, and where a redirect led.  HttpFetcher and PlaywrightFetcher return
\* either the response's status with error None (retry_after only on a 429),
\* or status 0 with error str(e), which is empty when the exception carries
\* no message.
Responses ==
    { [status_code |-> 200, error |-> "", retry_after |-> NoRetryAfter,
       location |-> NoLocation],
      [status_code |-> 404, error |-> "", retry_after |-> NoRetryAfter,
       location |-> NoLocation],
      [status_code |-> 429, error |-> "", retry_after |-> NoRetryAfter,
       location |-> NoLocation],
      [status_code |-> 429, error |-> "", retry_after |-> 2 * Second,
       location |-> NoLocation],
      [status_code |-> 429, error |-> "", retry_after |-> 120 * Second,
       location |-> NoLocation],
      [status_code |-> 500, error |-> "", retry_after |-> NoRetryAfter,
       location |-> NoLocation],
      [status_code |-> 0, error |-> "request timed out", retry_after |-> NoRetryAfter,
       location |-> NoLocation],
      [status_code |-> 0, error |-> "", retry_after |-> NoRetryAfter,
       location |-> NoLocation] }

\* FetchResult(url=url, ..., attempts=1) as a fetcher builds it.
FetchResult(url, resp) ==
    [url |-> url,
     final_url |-> IF resp.location = NoLocation THEN url ELSE resp.location,
     status_code |-> resp.status_code, error |-> resp.error,
     retry_after |-> resp.retry_after, attempts |-> 1]

\* FetchResult.success
success(result) ==
    result.status_code >= 200 /\ result.status_code < 400 /\ result.error = ""

\* BaseFetcher._is_retryable
_is_retryable(result) ==
    IF result.status_code = 429 \/ result.status_code >= 500 THEN TRUE
    ELSE IF result.status_code = 0 /\ result.error # "" THEN TRUE
    ELSE FALSE

\* A retry loop that runs one iteration too many.
after_attempt_off_by_one(result, attempt, max_retries) ==
    IF success(result) THEN "return"
    ELSE IF ~_is_retryable(result) THEN "return"
    ELSE IF attempt <= max_retries THEN "sleep"
    ELSE "exhausted"

\* The body of fetch_with_retry's loop after result = await self.fetch(url):
\* return the result, sleep and go round again, or fall out of the loop.
after_attempt(result, attempt, max_retries) ==
    IF success(result) THEN "return"
    ELSE IF ~_is_retryable(result) THEN "return"
    ELSE IF attempt < max_retries THEN "sleep"
    ELSE "exhausted"

\* Largest max_retries followed (RateLimitConfig accepts 0..10).
MaxRetries == 2

\* _MAX_RETRY_DELAY = 60.0
_MAX_RETRY_DELAY == 60 * Second

\* retry_base_delay: RateLimitConfig accepts 0.1 <= retry_base_delay <= 30;
\* a tenth of a second is rounded to whole units.
BaseDelays == {Second \div 10, Second, 30 * Second}

\* random.uniform(0, 0.5)
Jitters == {0, Second \div 4, Second \div 2}

\* The delay before the cap is applied.
retry_delay_uncapped(base_delay, attempt, jitter, retry_after) ==
    LET delay == base_delay * Pow2(attempt) + jitter
    IN  IF retry_after # NoRetryAfter THEN Max(delay, retry_after) ELSE delay

\* delay = base_delay * (2 ** attempt) + random.uniform(0, 0.5); the
\* Retry-After hint, when there is one, raises it; _MAX_RETRY_DELAY caps it.
retry_delay(base_delay, attempt, jitter, retry_after) ==
    Min(retry_delay_uncapped(base_delay, attempt, jitter, retry_after),
        _MAX_RETRY_DELAY)

InitRetry ==
    /\ RateLimiterInit(Second \div 10, 1)
    /\ rPc = "fetch" /\ rAttempt = 0 /\ rResult = NoResult
    /\ rCalls = <<>> /\ rSleeps = <<>>
    /\ rMaxRetries \in 0..MaxRetries
    /\ rBaseDelay \in BaseDelays
    /\ IdleFn /\ IdlePool /\ IdleLog /\ IdlePace /\ IdleRun

\* result = await self.fetch(url); result.attempts = attempt + 1; then the
\* rest of the loop body up to the next await or the return.
RetryFetchReturns ==
    /\ rPc = "fetch"
    /\ \E resp \in Responses :
          LET result == [FetchResult("u", resp) EXCEPT !.attempts = rAttempt + 1]
              then == after_attempt(result, rAttempt, rMaxRetries)
          IN  /\ rResult' = result
              /\ rCalls' = Append(rCalls, result)
              /\ rPc' = IF then = "sleep" THEN "sleep" ELSE "returned"
    /\ UNCHANGED <<rMaxRetries, rBaseDelay, rAttempt, rSleeps>>
    /\ UNCHANGED <<rlVars, fnVars, poolVars, logVars, paceVars, runVars>>

\* self.fetch(url) raises: the exception leaves fetch_with_retry.
RetryFetchRaises ==
    /\ rPc = "fetch"
    /\ rPc' = "raised"
    /\ UNCHANGED <<rMaxRetries, rBaseDelay, rAttempt, rResult, rCalls, rSleeps>>
    /\ UNCHANGED <<rlVars, fnVars, poolVars, logVars, paceVars, runVars>>

\* The delay is computed, await asyncio.sleep(delay) ends and the loop takes
\* its next iteration.
RetrySleepEnds ==
    /\ rPc = "sleep"
    /\ \E jitter \in Jitters :
          rSleeps' = Append(rSleeps,
                            [attempt |-> rAttempt,
                             delay |-> retry_delay(rBaseDelay, rAttempt, jitter,
                                                   rResult.retry_after)])
    /\ rAttempt' = rAttempt + 1
    /\ rPc' = "fetch"
    /\ UNCHANGED <<rMaxRetries, rBaseDelay, rResult, rCalls>>
    /\ UNCHANGED <<rlVars, fnVars, poolVars, logVars, paceVars, runVars>>

NextRetry == RetryFetchReturns \/ RetryFetchRaises \/ RetrySleepEnds

SpecRetry == InitRetry /\ [][NextRetry]_vars

\* The retryable results as the retry policy states them: HTTP 429,
\* HTTP >= 500, or status code 0 with an error message.
RetryableByPolicy(result) ==
    \/ result.status_code = 429
    \/ result.status_code >= 500
    \/ (result.status_code = 0 /\ result.error # "")

\* C9: fetch_with_retry fetches again after a result iff that result is
\* retryable and fewer than max_retries + 1 attempts have been made; it
\* returns at once on success and on any other failure, never makes more
\* than max_retries + 1 fetch calls, and the returned attempts field is the
\* number of fetch calls made, which is at least 1.
C9_RetryExactlyWhenRetryable ==
    LET n == Len(rCalls)
        again(k) == RetryableByPolicy(rCalls[k]) /\ k < rMaxRetries + 1
    IN  /\ n <= rMaxRetries + 1
        /\ \A k \in 1..n : rCalls[k].attempts = k
        /\ \A k \in 1..(n - 1) : again(k)
        /\ (rPc = "sleep") => (n >= 1 /\ again(n))
        /\ (rPc = "returned") =>
              /\ n >= 1
              /\ ~again(n)
              /\ rResult = rCalls[n]
              /\ rResult.attempts = n

\* C9 witness: with max_retries = 2, a 429 and a 500 were retried and the
\* third, last allowed attempt failed as well and was returned.
C9_Witness ==
    /\ rPc = "returned"
    /\ rMaxRetries = 2
    /\ Len(rCalls) = 3
    /\ rCalls[1].status_code = 429
    /\ rCalls[2].status_code = 500
    /\ rResult.status_code = 0 /\ rResult.error # ""
    /\ rResult.attempts = 3

(***************************************************************************)
(* RateLimiter.acquire() and release() under a clock                       *)
(***************************************************************************)

\* Number of concurrent callers of acquire(), the largest max_concurrent, the
\* last clock value followed and the number of request starts followed.
NCallers == 2
MaxConcurrent == 2
MaxTime == 5
MaxStarts == 3

\* delay_seconds, in 1/1024 s, of the limiters put under the clock.
PaceDelays == {0, 1, 2}

Callers == 1..NCallers

InitPace ==
    /\ \E d \in PaceDelays, m \in 1..MaxConcurrent : RateLimiterInit(d, m)
    /\ now \in {0, 1, 3}
    /\ cPc = [c \in Callers |-> "idle"]
    /\ cWake = [c \in Callers |-> 0]
    /\ cDelay = [c \in Callers |-> 0]
    /\ starts = <<>>
    /\ IdleFn /\ IdlePool /\ IdleLog /\ IdleRetry /\ IdleRun

\* time.monotonic() advances.
Tick ==
    /\ now < MaxTime
    /\ now' = now + 1
    /\ UNCHANGED <<cPc, cWake, cDelay, starts>>
    /\ UNCHANGED <<rlVars, fnVars, poolVars, logVars, retryVars, runVars>>

\* A caller enters acquire().
PaceCall(c) ==
    /\ cPc[c] = "idle"
    /\ Len(starts) + Cardinality({x \in Callers : cPc[x] \in {"sem", "lock", "pacing"}})
          < MaxStarts
    /\ cPc' = [cPc EXCEPT ![c] = "sem"]
    /\ UNCHANGED <<now, cWake, cDelay, starts>>
    /\ UNCHANGED <<rlVars, fnVars, poolVars, logVars, retryVars, runVars>>

\* await self._semaphore.acquire()
PaceSem(c) ==
    /\ cPc[c] = "sem"
    /\ permits > 0
    /\ permits' = permits - 1
    /\ cPc' = [cPc EXCEPT ![c] = "lock"]
    /\ UNCHANGED <<delay_seconds, original_delay, backoff_count, peak_delay,
                   lock, last_request_time>>
    /\ UNCHANGED <<now, cWake, cDelay, starts>>
    /\ UNCHANGED <<fnVars, poolVars, logVars, retryVars, runVars>>

\* wait_time = self.delay_seconds - (now - self._last_request_time)
wait_time(t) == delay_seconds - (t - last_request_time)

\* A pacing check that does not take self._lock.
PaceLock_unlocked(c) ==
    /\ cPc[c] = "lock"
    /\ lock' = c
    /\ cWake' = [cWake EXCEPT ![c] = IF wait_time(now) > 0
                                      THEN now + wait_time(now) ELSE now]
    /\ cDelay' = [cDelay EXCEPT ![c] = delay_seconds]
    /\ cPc' = [cPc EXCEPT ![c] = "pacing"]
    /\ UNCHANGED <<delay_seconds, original_delay, backoff_count, peak_delay,
                   permits, last_request_time>>
    /\ UNCHANGED <<now, starts>>
    /\ UNCHANGED <<fnVars, poolVars, logVars, retryVars, runVars>>

\* async with self._lock: now = monotonic(); the wait is computed and, when
\* positive, asyncio.sleep(wait_time) begins, to end no earlier than cWake.
PaceLock(c) ==
    /\ cPc[c] = "lock"
    /\ lock = 0
    /\ lock' = c
    /\ cWake' = [cWake EXCEPT ![c] = IF wait_time(now) > 0
                                      THEN now + wait_time(now) ELSE now]
    /\ cDelay' = [cDelay EXCEPT ![c] = delay_seconds]
    /\ cPc' = [cPc EXCEPT ![c] = "pacing"]
    /\ UNCHANGED <<delay_seconds, original_delay, backoff_count, peak_delay,
                   permits, last_request_time>>
    /\ UNCHANGED <<now, starts>>
    /\ UNCHANGED <<fnVars, poolVars, logVars, retryVars, runVars>>

\* The sleep, if any, is over: self._last_request_time = monotonic(), the
\* lock is left and acquire() returns.
PaceRecord(c) ==
    /\ cPc[c] = "pacing"
    /\ now >= cWake[c]
    /\ last_request_time' = now
    /\ starts' = Append(starts, now)
    /\ lock' = 0
    /\ cWake' = [cWake EXCEPT ![c] = 0]
    /\ cDelay' = [cDelay EXCEPT ![c] = 0]
    /\ cPc' = [cPc EXCEPT ![c] = "holding"]
    /\ UNCHANGED <<delay_seconds, original_delay, backoff_count, peak_delay,
                   permits>>
    /\ UNCHANGED now
    /\ UNCHANGED <<fnVars, poolVars, logVars, retryVars, runVars>>

\* RateLimiter.release()
PaceRelease(c) ==
    /\ cPc[c] = "holding"
    /\ permits' = permits + 1
    /\ cPc' = [cPc EXCEPT ![c] = "idle"]
    /\ UNCHANGED <<delay_seconds, original_delay, backoff_count, peak_delay,
                   lock, last_request_time>>
    /\ UNCHANGED <<now, cWake, cDelay, starts>>
    /\ UNCHANGED <<fnVars, poolVars, logVars, retryVars, runVars>>

NextPace ==
    \/ Tick
    \/ \E c \in Callers :
          PaceCall(c) \/ PaceSem(c) \/ PaceLock(c) \/ PaceRecord(c) \/ PaceRelease(c)

SpecPace == InitPace /\ [][NextPace]_vars

\* C6: with delay_seconds constant at D, the request start times recorded
\* by successive acquire() calls are at least D apart, whichever callers
\* made them.
C6_StartsAtLeastDelayApart ==
    \A k \in 1..(Len(starts) - 1) : starts[k + 1] - starts[k] >= delay_seconds

\* C6 witness: with D = 2 and two slots, two different callers are both past
\* acquire() and their recorded starts are exactly D apart.
C6_Witness ==
    /\ delay_seconds = 2
    /\ Len(starts) >= 2
    /\ starts[2] - starts[1] = 2
    /\ Cardinality({c \in Callers : cPc[c] = "holding"}) = 2

(***************************************************************************)
(* URLs: normalize_url and the category pre-filter                         *)
(***************************************************************************)

\* A URL is its path segments, whether the path ends in "/", and its
\* fragment ("" for none); scheme, host and query are the same throughout.
Url(segs, slash, frag) == [segs |-> segs, slash |-> slash, frag |-> frag]

\* utils.url_utils.normalize_url: the fragment is dropped and trailing
\* slashes are stripped off the path unless the path is exactly "/".
normalize_url(u) ==
    Url(u.segs, IF u.segs = <<>> THEN u.slash ELSE FALSE, "")

\* str.lower() on the path segments the model uses.
Lower(seg) == IF seg = "Category" THEN "category" ELSE seg

\* Orchestrator._is_likely_category_url: "/category/" in parsed.path.lower()
_is_likely_category_url(u) ==
    \E k \in 1..Len(u.segs) :
        /\ Lower(u.segs[k]) = "category"
        /\ (k < Len(u.segs) \/ u.slash)

\* The URLs a discoverer may yield.
UrlA == Url(<<"docs", "a">>, FALSE, "")
UrlASlash == Url(<<"docs", "a">>, TRUE, "")
UrlB == Url(<<"docs", "b">>, FALSE, "")
UrlCat == Url(<<"docs", "category", "x">>, FALSE, "")
UrlChoices == {UrlA, UrlASlash, UrlB, UrlCat}

\* The URLs in the order of their strings, as sort(key=lambda p: p.url) sees
\* them.
UrlOrder == <<UrlA, UrlASlash, UrlB, UrlCat>>
UrlRank(u) == CHOOSE k \in 1..Len(UrlOrder) : UrlOrder[k] = u

\* The seen-set loop of run(): the first URL of each normalized form stays.
RECURSIVE Dedup(_, _)
Dedup(list, seen) ==
    IF list = <<>> THEN <<>>
    ELSE LET norm == normalize_url(Head(list))
         IN  IF norm \in seen THEN Dedup(Tail(list), seen)
             ELSE <<Head(list)>> \o Dedup(Tail(list), seen \cup {norm})

\* urls = [u for u in urls if normalize_url(u.url) not in skip_set]
RECURSIVE SkipFilter(_, _)
SkipFilter(list, skip_set) ==
    IF list = <<>> THEN <<>>
    ELSE IF normalize_url(Head(list)) \in skip_set
         THEN SkipFilter(Tail(list), skip_set)
         ELSE <<Head(list)>> \o SkipFilter(Tail(list), skip_set)

\* list.sort(key=...) on page urls: a stable insertion sort.
RECURSIVE InsertByUrl(_, _)
InsertByUrl(sorted, p) ==
    IF sorted = <<>> THEN <<p>>
    ELSE IF UrlRank(p.url) < UrlRank(Head(sorted).url)
         THEN <<p>> \o sorted
         ELSE <<Head(sorted)>> \o InsertByUrl(Tail(sorted), p)

RECURSIVE SortByUrl(_)
SortByUrl(list) ==
    IF list = <<>> THEN <<>>
    ELSE InsertByUrl(SortByUrl(SubSeq(list, 1, Len(list) - 1)), list[Len(list)])

(***************************************************************************)
(* Orchestrator._categorize_error                                          *)
(***************************************************************************)

\* f"HTTP {status_code}"
HttpMsg(status_code) == "HTTP " \o ToString(status_code)

\* str(e) of the exceptions a pipeline step raises.
ExceptionMessages == {"boom", "connection refused"}

\* str.lower() on ASCII text.
UpperCaseLetters == "ABCDEFGHIJKLMNOPQRSTUVWXYZ"
LowerCaseLetters == "abcdefghijklmnopqrstuvwxyz"
UpperCaseSet == {SubSeq(UpperCaseLetters, k, k) : k \in 1..Len(UpperCaseLetters)}

lower_char(c) ==
    IF c \in UpperCaseSet
    THEN LET k == CHOOSE j \in 1..Len(UpperCaseLetters) :
                      SubSeq(UpperCaseLetters, j, j) = c
         IN  SubSeq(LowerCaseLetters, k, k)
    ELSE c

\* The characters of str from position k on, each in lower case.
RECURSIVE lower_from(_, _)
lower_from(str, k) ==
    IF k > Len(str) THEN ""
    ELSE lower_char(SubSeq(str, k, k)) \o lower_from(str, k + 1)

str_lower(str) == lower_from(str, 1)

\* kw in msg_lower
Mentions(msg_lower, kw) ==
    \E s \in {msg_lower} :
        \E k \in 1..(Len(s) - Len(kw) + 1) : SubSeq(s, k, k + Len(kw) - 1) = kw

\* A classification that reads the message before the status code.
_categorize_error_message_first(status_code, error_msg, stage) ==
    LET msg_lower == str_lower(error_msg)
    IN  IF Mentions(msg_lower, "timeout") \/ Mentions(msg_lower, "timed out")
        THEN "timeout"
        ELSE IF \E kw \in {"connect", "refused", "dns", "network", "socket"} :
                    Mentions(msg_lower, kw)
        THEN "connection"
        ELSE IF status_code = 429 THEN "rate_limited"
        ELSE IF status_code >= 500 THEN "server_error"
        ELSE IF 400 <= status_code /\ status_code < 500 THEN "client_error"
        ELSE IF stage = "extract" \/ stage = "pipeline" THEN "extraction"
        ELSE "unknown"

_categorize_error(status_code, error_msg, stage) ==
    LET msg_lower == str_lower(error_msg)
    IN  IF status_code = 429 THEN "rate_limited"
        ELSE IF status_code >= 500 THEN "server_error"
        ELSE IF 400 <= status_code /\ status_code < 500 THEN "client_error"
        ELSE IF Mentions(msg_lower, "timeout") \/ Mentions(msg_lower, "timed out")
        THEN "timeout"
        ELSE IF \E kw \in {"connect", "refused", "dns", "network", "socket"} :
                    Mentions(msg_lower, kw)
        THEN "connection"
        ELSE IF stage = "extract" \/ stage = "pipeline" THEN "extraction"
        ELSE "unknown"

(***************************************************************************)
(* Orchestrator.run and the _process_page tasks                            *)
(***************************************************************************)

\* Longest list of discovered URLs followed.
MaxUrls == 3

\* Where the server redirects to, when it does.
RedirectTarget == UrlB

\* The fetch responses and exception messages met in a run: a page, a page
\* reached through a redirect, a client error, a rate limit and a transport
\* error; one exception message.
RunResponses ==
    { r \in Responses : /\ r.retry_after = NoRetryAfter
                        /\ r.status_code \in {200, 404, 429, 0}
                        /\ (r.status_code = 0 => r.error # "") }
        \cup { [status_code |-> 200, error |-> "", retry_after |-> NoRetryAfter,
                location |-> RedirectTarget] }
RunExceptionMessages == {"boom"}

\* The skip files a run may be given, as the set run() builds from them.
SkipChoices == { {}, {normalize_url(UrlA)} }

Tasks == 1..Len(urls)

\* PageTiming(url=discovered.url)
PageTiming(u) ==
    [url |-> u, status |-> "queued", error |-> "", retry_attempts |-> 1]

TerminalStatuses == {"done", "skipped", "error"}

InitRun ==
    /\ config \in [pattern : BOOLEAN, skip_set : SkipChoices,
                   max_concurrent : 1..MaxConcurrent, max_retries : 0..1]
    /\ RateLimiterInit(Second \div 10, config.max_concurrent)
    /\ runPc = "discover"
    /\ urls = <<>>
    /\ probe_result = NoResult
    /\ page_timings = <<>> /\ pages = <<>> /\ errors = <<>>
    /\ skipped = <<>> /\ skipped_categories = <<>>
    /\ tPc = <<>> /\ tFetch = <<>> /\ tAttempt = <<>>
    /\ fetches = [u \in UrlChoices |-> 0]
    /\ acquired = <<>> /\ released = <<>> /\ backoffs = <<>> /\ eases = <<>>
    /\ statusLog = <<>>
    /\ postDedup = 0
    /\ discovered = <<>> /\ failed_urls_file = <<>>
    /\ skip_urls_file = <<>> /\ runNo = 1
    /\ IdleFn /\ IdlePool /\ IdleLog /\ IdlePace /\ IdleRetry

\* async for discovered in discoverer.discover(): urls.append(discovered)
Discover(u) ==
    /\ runPc = "discover"
    /\ runNo = 1
    /\ Len(urls) < MaxUrls
    /\ urls' = Append(urls, u)
    /\ UNCHANGED <<config, runPc, probe_result, page_timings, pages, errors,
                   skipped, skipped_categories, tPc, tFetch, tAttempt,
                   fetches, acquired, released, backoffs, eases, statusLog, postDedup, laterVars>>
    /\ UNCHANGED <<rlVars, fnVars, poolVars, logVars, paceVars, retryVars>>

\* if not urls: ... return result
DiscoveryEmpty ==
    /\ runPc = "discover"
    /\ urls = <<>>
    /\ runPc' = "returned"
    /\ UNCHANGED <<config, urls, probe_result, page_timings, pages, errors,
                   skipped, skipped_categories, tPc, tFetch, tAttempt,
                   fetches, acquired, released, backoffs, eases, statusLog, postDedup, laterVars>>
    /\ UNCHANGED <<rlVars, fnVars, poolVars, logVars, paceVars, retryVars>>

\* Discovery is over with at least one URL: deduplication, the skip file,
\* one PageTiming per remaining URL, and the way into `async with fetcher`.
\* Without an explicit pattern run() reads urls[0] next, an IndexError when
\* the skip file removed every URL.
DiscoveryDone ==
    /\ runPc = "discover"
    /\ urls # <<>>
    /\ LET unique_urls == Dedup(urls, {})
           kept == SkipFilter(unique_urls, config.skip_set)
       IN  /\ postDedup' = Len(unique_urls)
           /\ discovered' = urls
           /\ urls' = kept
           /\ page_timings' = [i \in 1..Len(kept) |-> PageTiming(kept[i])]
           /\ tPc' = [i \in 1..Len(kept) |-> "start"]
           /\ tFetch' = [i \in 1..Len(kept) |-> NoResult]
           /\ tAttempt' = [i \in 1..Len(kept) |-> 0]
           /\ acquired' = [i \in 1..Len(kept) |-> 0]
           /\ released' = [i \in 1..Len(kept) |-> 0]
           /\ backoffs' = [i \in 1..Len(kept) |-> 0]
           /\ eases' = [i \in 1..Len(kept) |-> 0]
           /\ statusLog' = [i \in 1..Len(kept) |-> <<"queued">>]
           /\ runPc' = IF config.pattern THEN "gather"
                       ELSE IF kept = <<>> THEN "raised"
                       ELSE "probe"
    /\ UNCHANGED <<config, probe_result, pages, errors, skipped,
                   skipped_categories, fetches, failed_urls_file,
                   skip_urls_file, runNo>>
    /\ UNCHANGED <<rlVars, fnVars, poolVars, logVars, paceVars, retryVars>>

\* probe_result = await fetcher.fetch(first_url), which returns.
Probe ==
    /\ runPc = "probe"
    /\ \E resp \in RunResponses : probe_result' = FetchResult(urls[1], resp)
    /\ fetches' = [fetches EXCEPT ![urls[1]] = @ + 1]
    /\ runPc' = "gather"
    /\ UNCHANGED <<config, urls, page_timings, pages, errors, skipped,
                   skipped_categories, tPc, tFetch, tAttempt, acquired,
                   released, backoffs, eases, statusLog, postDedup, laterVars>>
    /\ UNCHANGED <<rlVars, fnVars, poolVars, logVars, paceVars, retryVars>>

\* The probe fetch raises: except Exception: probe_result = None
ProbeRaises ==
    /\ runPc = "probe"
    /\ probe_result' = NoResult
    /\ fetches' = [fetches EXCEPT ![urls[1]] = @ + 1]
    /\ runPc' = "gather"
    /\ UNCHANGED <<config, urls, page_timings, pages, errors, skipped,
                   skipped_categories, tPc, tFetch, tAttempt, acquired,
                   released, backoffs, eases, statusLog, postDedup, laterVars>>
    /\ UNCHANGED <<rlVars, fnVars, poolVars, logVars, paceVars, retryVars>>

\* ---- _process_page(discovered, ..., cached_probe, timing) for task i ----

\* The ways through _process_page once the fetch is over: the fetch failed
\* or raised, extraction raised, gave nothing or a login gate, formatting
\* raised or gave a category page, or the page is done.
RaisePaths == {"fetch_raises", "extract_raises", "format_raises"}
SuccessPaths ==
    {"extract_raises", "no_content", "login_gated", "format_raises",
     "category_page", "done"}
PathsFor(result) ==
    IF success(result) THEN SuccessPaths ELSE {"fetch_failed"}

\* A handler that marks ERROR a page already marked DONE.
statuses_on_error_after_done(path) ==
    CASE path \in {"fetch_failed", "fetch_raises"} -> <<"error">>
      [] path = "extract_raises" -> <<"extracting", "error">>
      [] path \in {"no_content", "login_gated"} -> <<"extracting", "skipped">>
      [] path = "format_raises" -> <<"extracting", "converting", "done", "error">>
      [] path = "category_page" -> <<"extracting", "converting", "skipped">>
      [] path = "done" -> <<"extracting", "converting", "done">>

\* The values timing.status takes after FETCHING on each path.
statuses_on(path) ==
    CASE path \in {"fetch_failed", "fetch_raises"} -> <<"error">>
      [] path = "extract_raises" -> <<"extracting", "error">>
      [] path \in {"no_content", "login_gated"} -> <<"extracting", "skipped">>
      [] path = "format_raises" -> <<"extracting", "converting", "error">>
      [] path = "category_page" -> <<"extracting", "converting", "skipped">>
      [] path = "done" -> <<"extracting", "converting", "done">>

\* A back-off on every retryable failure, not on 429 alone.
calls_back_off_any_retryable(result, path) ==
    path = "fetch_failed" /\ _is_retryable(result)

\* if not fetch_result.success: if fetch_result.status_code == 429: back_off()
calls_back_off(result, path) ==
    path = "fetch_failed" /\ result.status_code = 429

\* An ease_off() after every fetch that succeeded, whatever became of the
\* page.
calls_ease_off_on_fetch_success(path) == path \in SuccessPaths

\* result.pages.append(page); timing.status = DONE; ease_off()
calls_ease_off(path) == path = "done"

\* A release() placed after the pipeline instead of in a finally.
releases_slot_unless_raised(path) == path \notin RaisePaths

\* The inner finally: self.rate_limiter.release() on every path.
releases_slot(path) == TRUE

\* error_msg = fetch_result.error or f"HTTP {fetch_result.status_code}"
FetchErrorMsg(result) ==
    IF result.error # "" THEN result.error ELSE HttpMsg(result.status_code)

\* result.errors after the path: the fetch-failure branch, or the handler
\* of `except Exception as e` with error_msg = str(e).
errors_after(u, result, path, msg) ==
    IF path = "fetch_failed"
    THEN Append(errors, <<u, FetchErrorMsg(result),
                 _categorize_error(result.status_code, FetchErrorMsg(result), "fetch")>>)
    ELSE IF path \in RaisePaths
    THEN Append(errors, <<u, msg, _categorize_error(0, msg, "pipeline")>>)
    ELSE errors

\* A login-gated page that is dropped without being recorded.
skipped_after_gate_dropped(u, path) ==
    IF path = "no_content" THEN Append(skipped, u) ELSE skipped

\* result.skipped after the path.
skipped_after(u, path) ==
    IF path \in {"no_content", "login_gated"} THEN Append(skipped, u) ELSE skipped

\* result.skipped_categories after the path.
skipped_categories_after(u, path) ==
    IF path = "category_page" THEN Append(skipped_categories, u)
    ELSE skipped_categories

\* formatter.format_page(content, effective_url, ...): the page carries the
\* final URL of the fetch; its markdown is the text of what was fetched for u.
FormattedPage(u, result) == [url |-> result.final_url, markdown |-> u]

\* A page appended before the category-page test.
pages_after_before_category_test(u, result, path) ==
    IF path \in {"category_page", "done"}
    THEN Append(pages, FormattedPage(u, result)) ELSE pages

\* result.pages after the path.
pages_after(u, result, path) ==
    IF path = "done" THEN Append(pages, FormattedPage(u, result)) ELSE pages

\* The rest of _process_page from the end of the fetch to its return, which
\* holds no await: the status changes, the result lists, back_off() or
\* ease_off(), and release().  `before` are the statuses the calling step
\* has already set.
Finish(i, result, path, msg, before) ==
    LET u == urls[i]
        log == before \o statuses_on(path)
    IN  /\ statusLog' = [statusLog EXCEPT ![i] = @ \o log]
        /\ page_timings' =
              [page_timings EXCEPT
                  ![i].status = log[Len(log)],
                  ![i].retry_attempts =
                      IF result = NoResult THEN @ ELSE result.attempts,
                  ![i].error =
                      IF path = "fetch_failed" THEN FetchErrorMsg(result)
                      ELSE IF path \in RaisePaths THEN msg ELSE @]
        /\ errors' = errors_after(u, result, path, msg)
        /\ skipped' = skipped_after(u, path)
        /\ skipped_categories' = skipped_categories_after(u, path)
        /\ pages' = pages_after(u, result, path)
        /\ IF calls_back_off(result, path) THEN back_off
           ELSE IF calls_ease_off(path)
           THEN ease_off /\ UNCHANGED <<backoff_count, peak_delay>>
           ELSE UNCHANGED <<delay_seconds, backoff_count, peak_delay>>
        /\ eases' = [eases EXCEPT ![i] = IF calls_ease_off(path) THEN @ + 1 ELSE @]
        /\ backoffs' = [backoffs EXCEPT ![i] =
                          IF calls_back_off(result, path) THEN @ + 1 ELSE @]
        /\ permits' = IF releases_slot(path) THEN permits + 1 ELSE permits
        /\ released' = [released EXCEPT ![i] =
                          IF releases_slot(path) THEN @ + 1 ELSE @]
        /\ tFetch' = [tFetch EXCEPT ![i] = result]
        /\ tPc' = [tPc EXCEPT ![i] = "done"]

\* The (path, exception message) pairs open to a fetch result.
Outcomes(result) ==
    { <<path, msg>> \in PathsFor(result) \X (RunExceptionMessages \cup {""}) :
          (path \in RaisePaths) <=> (msg # "") }

\* The task starts: the URL pre-filter either ends it as a skipped category
\* or lets it go on to rate_limiter.acquire().
ProcessPageStart(i) ==
    /\ runPc = "gather"
    /\ tPc[i] = "start"
    /\ IF _is_likely_category_url(urls[i])
       THEN /\ skipped_categories' = Append(skipped_categories, urls[i])
            /\ page_timings' = [page_timings EXCEPT ![i].status = "skipped"]
            /\ statusLog' = [statusLog EXCEPT ![i] = Append(@, "skipped")]
            /\ tPc' = [tPc EXCEPT ![i] = "done"]
       ELSE /\ tPc' = [tPc EXCEPT ![i] = "sem"]
            /\ UNCHANGED <<skipped_categories, page_timings, statusLog>>
    /\ UNCHANGED <<config, runPc, urls, probe_result, pages, errors, skipped,
                   tFetch, tAttempt, fetches, acquired, released, backoffs, eases,
                   postDedup, laterVars>>
    /\ UNCHANGED <<rlVars, fnVars, poolVars, logVars, paceVars, retryVars>>

\* An acquire() that takes a slot without looking at the semaphore's value.
ProcessPageSem_unguarded(i) ==
    /\ runPc = "gather"
    /\ tPc[i] = "sem"
    /\ permits' = permits - 1
    /\ tPc' = [tPc EXCEPT ![i] = "lock"]
    /\ UNCHANGED <<delay_seconds, original_delay, backoff_count, peak_delay,
                   lock, last_request_time>>
    /\ UNCHANGED <<config, runPc, urls, probe_result, page_timings, pages,
                   errors, skipped, skipped_categories, tFetch, tAttempt,
                   fetches, acquired, released, backoffs, eases, statusLog, postDedup, laterVars>>
    /\ UNCHANGED <<fnVars, poolVars, logVars, paceVars, retryVars>>

\* acquire(): await self._semaphore.acquire()
ProcessPageSem(i) ==
    /\ runPc = "gather"
    /\ tPc[i] = "sem"
    /\ permits > 0
    /\ permits' = permits - 1
    /\ tPc' = [tPc EXCEPT ![i] = "lock"]
    /\ UNCHANGED <<delay_seconds, original_delay, backoff_count, peak_delay,
                   lock, last_request_time>>
    /\ UNCHANGED <<config, runPc, urls, probe_result, page_timings, pages,
                   errors, skipped, skipped_categories, tFetch, tAttempt,
                   fetches, acquired, released, backoffs, eases, statusLog, postDedup, laterVars>>
    /\ UNCHANGED <<fnVars, poolVars, logVars, paceVars, retryVars>>

\* acquire(): async with self._lock, up to the pacing sleep.  A run is
\* followed without its clock (SpecPace has it): the sleep just ends.
ProcessPageLock(i) ==
    /\ runPc = "gather"
    /\ tPc[i] = "lock"
    /\ lock = 0
    /\ lock' = i
    /\ tPc' = [tPc EXCEPT ![i] = "pacing"]
    /\ UNCHANGED <<delay_seconds, original_delay, backoff_count, peak_delay,
                   permits, last_request_time>>
    /\ UNCHANGED <<config, runPc, urls, probe_result, page_timings, pages,
                   errors, skipped, skipped_categories, tFetch, tAttempt,
                   fetches, acquired, released, backoffs, eases, statusLog, postDedup, laterVars>>
    /\ UNCHANGED <<fnVars, poolVars, logVars, paceVars, retryVars>>

\* acquire() returns: the lock is left and timing.status = FETCHING.  With a
\* cached probe of this very URL the task runs on to its end without another
\* await; otherwise fetch_with_retry makes its first fetch call.
ProcessPagePaced(i) ==
    /\ runPc = "gather"
    /\ tPc[i] = "pacing"
    /\ lock' = 0
    /\ acquired' = [acquired EXCEPT ![i] = @ + 1]
    /\ IF probe_result # NoResult /\ urls[i] = probe_result.url
       THEN \E o \in Outcomes(probe_result) :
                Finish(i, probe_result, o[1], o[2], <<"fetching">>)
       ELSE /\ tPc' = [tPc EXCEPT ![i] = "fetch"]
            /\ page_timings' = [page_timings EXCEPT ![i].status = "fetching"]
            /\ statusLog' = [statusLog EXCEPT ![i] = Append(@, "fetching")]
            /\ UNCHANGED <<delay_seconds, backoff_count, peak_delay, permits>>
            /\ UNCHANGED <<pages, errors, skipped, skipped_categories, tFetch,
                           released, backoffs, eases>>
    /\ UNCHANGED <<original_delay, last_request_time>>
    /\ UNCHANGED <<config, runPc, urls, probe_result, tAttempt, fetches,
                   postDedup, laterVars>>
    /\ UNCHANGED <<fnVars, poolVars, logVars, paceVars, retryVars>>

\* fetch_with_retry: result = await self.fetch(url) returns.  Either the
\* loop sleeps before another attempt, or fetch_with_retry returns and the
\* task runs on to its end.
ProcessPageFetch(i) ==
    /\ runPc = "gather"
    /\ tPc[i] = "fetch"
    /\ fetches' = [fetches EXCEPT ![urls[i]] = @ + 1]
    /\ \E resp \in RunResponses :
          LET result == [FetchResult(urls[i], resp) EXCEPT
                            !.attempts = tAttempt[i] + 1]
          IN  IF after_attempt(result, tAttempt[i], config.max_retries) = "sleep"
              THEN /\ tPc' = [tPc EXCEPT ![i] = "retry_sleep"]
                   /\ tFetch' = [tFetch EXCEPT ![i] = result]
                   /\ UNCHANGED <<delay_seconds, backoff_count, peak_delay,
                                  permits>>
                   /\ UNCHANGED <<page_timings, pages, errors, skipped,
                                  skipped_categories, released, backoffs, eases,
                                  statusLog>>
              ELSE \E o \in Outcomes(result) :
                       Finish(i, result, o[1], o[2], <<>>)
    /\ UNCHANGED <<original_delay, lock, last_request_time>>
    /\ UNCHANGED <<config, runPc, urls, probe_result, tAttempt, acquired,
                   postDedup, laterVars>>
    /\ UNCHANGED <<fnVars, poolVars, logVars, paceVars, retryVars>>

\* A fetch call whose exception is not caught at the task boundary.
ProcessPageFetchRaises_uncaught(i) ==
    /\ runPc = "gather"
    /\ tPc[i] = "fetch"
    /\ fetches' = [fetches EXCEPT ![urls[i]] = @ + 1]
    /\ runPc' = "raised"
    /\ permits' = permits + 1
    /\ released' = [released EXCEPT ![i] = @ + 1]
    /\ tPc' = [tPc EXCEPT ![i] = "done"]
    /\ UNCHANGED <<delay_seconds, original_delay, backoff_count, peak_delay,
                   lock, last_request_time>>
    /\ UNCHANGED <<config, urls, probe_result, page_timings, pages, errors,
                   skipped, skipped_categories, tFetch, tAttempt, acquired,
                   backoffs, eases, statusLog, postDedup, laterVars>>
    /\ UNCHANGED <<fnVars, poolVars, logVars, paceVars, retryVars>>

\* fetch_with_retry: self.fetch(url) raises; the exception leaves
\* fetch_with_retry, passes the inner finally and reaches `except Exception`.
ProcessPageFetchRaises(i) ==
    /\ runPc = "gather"
    /\ tPc[i] = "fetch"
    /\ fetches' = [fetches EXCEPT ![urls[i]] = @ + 1]
    /\ \E msg \in RunExceptionMessages :
          Finish(i, NoResult, "fetch_raises", msg, <<>>)
    /\ UNCHANGED <<original_delay, lock, last_request_time>>
    /\ UNCHANGED <<config, runPc, urls, probe_result, tAttempt, acquired,
                   postDedup, laterVars>>
    /\ UNCHANGED <<fnVars, poolVars, logVars, paceVars, retryVars>>

\* fetch_with_retry: await asyncio.sleep(delay) ends; next loop iteration.
ProcessPageRetrySleep(i) ==
    /\ runPc = "gather"
    /\ tPc[i] = "retry_sleep"
    /\ tAttempt' = [tAttempt EXCEPT ![i] = @ + 1]
    /\ tPc' = [tPc EXCEPT ![i] = "fetch"]
    /\ UNCHANGED <<config, runPc, urls, probe_result, page_timings, pages,
                   errors, skipped, skipped_categories, tFetch, fetches,
                   acquired, released, backoffs, eases, statusLog, postDedup, laterVars>>
    /\ UNCHANGED <<rlVars, fnVars, poolVars, logVars, paceVars, retryVars>>

\* A line of a URL list file: a "#" comment, or a URL.
CommentLine == [comment |-> TRUE, url |-> <<>>]
UrlLine(u) == [comment |-> FALSE, url |-> u]

\* No file of that name exists.
NoFile == <<>>

\* if result.errors: two comment lines, then the url of every entry of
\* errors on a line of its own; without errors the file is not touched.
failed_urls_file_after(file, errs) ==
    IF errs # <<>>
    THEN <<CommentLine, CommentLine>> \o [k \in 1..Len(errs) |-> UrlLine(errs[k][1])]
    ELSE file

\* A skip set of the URLs as the file has them, not normalized.
read_skip_file_raw(file) ==
    {file[k].url : k \in {j \in 1..Len(file) : ~file[j].comment}}

\* skip_set = {normalize_url(line.strip()) for line in f
\*             if line.strip() and not line.startswith("#")}
read_skip_file(file) ==
    {normalize_url(file[k].url) : k \in {j \in 1..Len(file) : ~file[j].comment}}

\* await asyncio.gather(*tasks) returns: the pages are sorted by url, the
\* output and the summary are written, the failed URLs are written to the
\* sidecar file when there are any, and run() returns.
GatherDone ==
    /\ runPc = "gather"
    /\ \A i \in Tasks : tPc[i] = "done"
    /\ pages' = SortByUrl(pages)
    /\ failed_urls_file' = failed_urls_file_after(failed_urls_file, errors)
    /\ runPc' = "returned"
    /\ UNCHANGED <<config, urls, probe_result, page_timings, errors, skipped,
                   skipped_categories, tPc, tFetch, tAttempt, fetches,
                   acquired, released, backoffs, eases, statusLog, postDedup,
                   discovered, skip_urls_file, runNo>>
    /\ UNCHANGED <<rlVars, fnVars, poolVars, logVars, paceVars, retryVars>>

Next ==
    \/ \E u \in UrlChoices : Discover(u)
    \/ DiscoveryEmpty
    \/ DiscoveryDone
    \/ Probe
    \/ ProbeRaises
    \/ \E i \in Tasks : ProcessPageStart(i)
    \/ \E i \in Tasks : ProcessPageSem(i)
    \/ \E i \in Tasks : ProcessPageLock(i)
    \/ \E i \in Tasks : ProcessPagePaced(i)
    \/ \E i \in Tasks : ProcessPageFetch(i)
    \/ \E i \in Tasks : ProcessPageFetchRaises(i)
    \/ \E i \in Tasks : ProcessPageRetrySleep(i)
    \/ GatherDone

Init == InitRun

Spec == Init /\ [][Next]_vars

(***************************************************************************)
(* Properties of a run                                                     *)
(***************************************************************************)

\* The tasks that acquire() has returned to and that have not yet released.
InFlight == {i \in DOMAIN acquired : acquired[i] > released[i]}

\* C1: the number of tasks that have returned from acquire() and not yet
\* called release() never exceeds max_concurrent.
C1_InFlightAtMostMaxConcurrent ==
    runPc # "idle" => Cardinality(InFlight) <= config.max_concurrent

\* C1 witness: with one slot, a task is past acquire() while another waits
\* for the semaphore.
C1_Witness ==
    /\ config.max_concurrent = 1
    /\ \E i \in InFlight : \E j \in DOMAIN tPc : j # i /\ tPc[j] = "sem"

\* C2: a task releases exactly once after its acquire() returned, on every
\* way out of _process_page, and never without it (a pre-filtered category
\* URL neither acquires nor releases); when all tasks have finished all
\* max_concurrent slots are free.
C2_ReleaseExactlyOncePerAcquire ==
    /\ \A i \in DOMAIN tPc :
          /\ released[i] <= acquired[i]
          /\ acquired[i] <= 1
          /\ tPc[i] = "done" => released[i] = acquired[i]
          /\ (tPc[i] = "done" /\ ~_is_likely_category_url(urls[i])) => acquired[i] = 1
          /\ _is_likely_category_url(urls[i]) => acquired[i] = 0 /\ released[i] = 0
    /\ (runPc \in {"gather", "returned"} /\ \A i \in DOMAIN tPc : tPc[i] = "done")
          => permits = config.max_concurrent

\* C2 witness: the run returned after one task left through the exception
\* handler during formatting, having acquired and released once, and one
\* task was pre-filtered as a category URL.
C2_Witness ==
    /\ runPc = "returned"
    /\ permits = config.max_concurrent
    /\ \E i \in DOMAIN tPc :
          /\ statusLog[i] = <<"queued", "fetching", "extracting", "converting", "error">>
          /\ acquired[i] = 1 /\ released[i] = 1
    /\ \E j \in DOMAIN tPc : _is_likely_category_url(urls[j]) /\ tPc[j] = "done"

\* How often url u is listed in pages, errors, skipped and skipped_categories.
Listed(u) ==
    Cardinality({k \in 1..Len(pages) : pages[k].markdown = u})
    + Cardinality({k \in 1..Len(errors) : errors[k][1] = u})
    + Cardinality({k \in 1..Len(skipped) : skipped[k] = u})
    + Cardinality({k \in 1..Len(skipped_categories) : skipped_categories[k] = u})

ResultTotal ==
    Len(pages) + Len(errors) + Len(skipped) + Len(skipped_categories)

\* C3 as stated: when run() returns, every URL that survived deduplication
\* has one PageTiming in a terminal status and the four result lists add up
\* to the number of post-dedup URLs.
C3_TotalEqualsPostDedup ==
    runPc = "returned" =>
        /\ Len(page_timings) = postDedup
        /\ ResultTotal = postDedup

\* C3 amended: when run() returns, every URL that survived deduplication and
\* the skip file has exactly one PageTiming, in a terminal status, and is
\* listed exactly once in pages, errors, skipped and skipped_categories
\* together, so the four lists add up to the number of those URLs (which is
\* the post-dedup number when no skip file removed any).
C3_TotalEqualsSurvivingUrls ==
    runPc = "returned" =>
        /\ Len(page_timings) = Len(urls)
        /\ \A i \in 1..Len(urls) :
              /\ page_timings[i].url = urls[i]
              /\ page_timings[i].status \in TerminalStatuses
              /\ Listed(urls[i]) = 1
        /\ ResultTotal = Len(urls)
        /\ Len(urls) <= postDedup
        /\ config.skip_set = {} => ResultTotal = postDedup

\* C3 witness: run() returned after the skip file removed one of two
\* deduplicated URLs and the other one was processed.
C3_Witness ==
    /\ runPc = "returned"
    /\ postDedup = 2
    /\ Len(urls) = 1
    /\ ResultTotal = 1

\* C4: a failed page (failed fetch, or an exception in fetch, extract or
\* convert) is recorded as ERROR for that page alone and never aborts the
\* batch: run() is never left by an exception once a page task exists,
\* while tasks are pending the batch can always take a step, and when run()
\* has returned every page is in a terminal status, the failed ones being
\* exactly those listed in errors.
C4_PageFailureNeverAbortsBatch ==
    /\ runPc = "raised" => page_timings = <<>>
    /\ runPc = "gather" => ENABLED Next
    /\ \A i \in DOMAIN tPc :
          (page_timings[i].status = "error") <=>
              (\E k \in 1..Len(errors) : errors[k][1] = urls[i])
    /\ Len(errors) =
          Cardinality({i \in DOMAIN tPc : page_timings[i].status = "error"})
    /\ runPc = "returned" =>
          \A i \in DOMAIN tPc : page_timings[i].status \in TerminalStatuses

\* C4 witness: run() returned with one page failed by an exception and
\* another page done.
C4_Witness ==
    /\ runPc = "returned"
    /\ Len(pages) = 1
    /\ Len(errors) = 1
    /\ errors[1][2] = "boom"
    /\ errors[1][3] = "extraction"

AllowedStatusChange(a, b) ==
    \/ <<a, b>> \in { <<"queued", "fetching">>, <<"fetching", "extracting">>,
                      <<"extracting", "converting">>, <<"converting", "done">> }
    \/ (a \notin TerminalStatuses /\ b \in {"skipped", "error"})

\* C5: every change of a PageTiming.status is QUEUED->FETCHING,
\* FETCHING->EXTRACTING, EXTRACTING->CONVERTING, CONVERTING->DONE, or a step
\* from a non-terminal status to SKIPPED or ERROR; a status that is DONE,
\* SKIPPED or ERROR is never assigned again.
C5_StatusChangesFollowStateMachine ==
    \A i \in DOMAIN statusLog :
        /\ statusLog[i][1] = "queued"
        /\ page_timings[i].status = statusLog[i][Len(statusLog[i])]
        /\ \A k \in 1..(Len(statusLog[i]) - 1) :
              AllowedStatusChange(statusLog[i][k], statusLog[i][k + 1])

\* C5 witness: a page went QUEUED, FETCHING, EXTRACTING, CONVERTING, DONE and
\* another one went from EXTRACTING to ERROR through the exception handler.
C5_Witness ==
    /\ \E i \in DOMAIN statusLog :
          statusLog[i] = <<"queued", "fetching", "extracting", "converting", "done">>
    /\ \E j \in DOMAIN statusLog :
          statusLog[j] = <<"queued", "fetching", "extracting", "error">>

\* The page tasks whose fetch ended, after its retries, with HTTP 429.
EndedWith429 ==
    {i \in DOMAIN tPc : /\ tPc[i] = "done"
                        /\ tFetch[i] # NoResult
                        /\ tFetch[i].status_code = 429}

RateLimitedErrors == {k \in 1..Len(errors) : errors[k][3] = "rate_limited"}

\* C8: back_off() is invoked exactly once for each page whose fetch ends
\* with HTTP 429 and for no other page, each such page is in errors with
\* category RATE_LIMITED, and backoff_count equals the number of
\* RATE_LIMITED entries of errors.
C8_BackOffOncePer429 ==
    /\ \A i \in DOMAIN tPc :
          backoffs[i] = IF i \in EndedWith429 THEN 1 ELSE 0
    /\ \A i \in EndedWith429 :
          /\ page_timings[i].status = "error"
          /\ \E k \in RateLimitedErrors : errors[k][1] = urls[i]
    /\ \A k \in RateLimitedErrors :
          \E i \in EndedWith429 : errors[k][1] = urls[i]
    /\ runPc # "idle" => backoff_count = Cardinality(RateLimitedErrors)

\* C8 witness: run() returned with one page that ended with 429 on its
\* second attempt and one page that failed otherwise, and one back-off.
C8_Witness ==
    /\ runPc = "returned"
    /\ backoff_count = 1
    /\ Len(errors) = 2
    /\ \E i \in EndedWith429 : tFetch[i].attempts = 2
    /\ delay_seconds = 2 * original_delay

\* C10: a discovered URL whose path contains /category/ is never fetched at
\* any point of run(), and when run() returns it is in skipped_categories
\* with status SKIPPED.
C10_CategoryUrlNeverFetched ==
    /\ runPc # "idle" =>
          \A u \in UrlChoices : _is_likely_category_url(u) => fetches[u] = 0
    /\ runPc = "returned" =>
          \A i \in DOMAIN tPc :
              _is_likely_category_url(urls[i]) =>
                  /\ page_timings[i].status = "skipped"
                  /\ \E k \in 1..Len(skipped_categories) :
                        skipped_categories[k] = urls[i]

(***************************************************************************)
(* Deduplication of the discovered URLs as a function of the list          *)
(***************************************************************************)

MaxDiscovered == 3

\* The site root without and with its "/", and a page with a fragment.
UrlRoot == Url(<<>>, FALSE, "")
UrlRootSlash == Url(<<>>, TRUE, "")
UrlAFrag == Url(<<"docs", "a">>, FALSE, "intro")
DedupUrlChoices == {UrlRoot, UrlRootSlash, UrlA, UrlASlash, UrlAFrag, UrlB}

RECURSIVE ListsUpTo(_, _)
ListsUpTo(S, n) ==
    IF n = 0 THEN {<<>>}
    ELSE LET shorter == ListsUpTo(S, n - 1)
         IN  shorter \cup {<<x>> \o l : x \in S, l \in {m \in shorter : Len(m) = n - 1}}

InitDedup ==
    /\ fnPc = "ready"
    /\ fnArgs \in ListsUpTo(DedupUrlChoices, MaxDiscovered)
    /\ fnResult = <<>>
    /\ RateLimiterInit(0, 1)
    /\ IdlePool /\ IdleLog /\ IdlePace /\ IdleRetry /\ IdleRun

\* run() replaces urls by unique_urls.
CallDedup ==
    /\ fnPc = "ready"
    /\ fnPc' = "done"
    /\ fnResult' = Dedup(fnArgs, {})
    /\ UNCHANGED <<fnArgs, rlVars, poolVars, logVars, paceVars, retryVars, runVars>>

NextDedup == CallDedup

SpecDedup == InitDedup /\ [][NextDedup]_vars

\* Two URLs differ only by a fragment and/or a trailing slash on the path.
SamePage(u, v) == u.segs = v.segs

\* The first URL of every group of the list, in the order of the list.
RECURSIVE FirstOfEachGroup(_)
FirstOfEachGroup(list) ==
    IF list = <<>> THEN <<>>
    ELSE LET n == Len(list)
             front == SubSeq(list, 1, n - 1)
         IN  IF \E k \in 1..(n - 1) : SamePage(list[k], list[n])
             THEN FirstOfEachGroup(front)
             ELSE FirstOfEachGroup(front) \o <<list[n]>>

\* C11: deduplication keeps exactly the first discovered URL of each group
\* of URLs that differ only by a fragment and/or a trailing slash, in
\* discovery order; a URL and the same URL with a trailing slash appended
\* leave one URL.
C11_DedupKeepsFirstOfEachGroup ==
    fnPc = "done" => fnResult = FirstOfEachGroup(fnArgs)

(***************************************************************************)
(* PlaywrightFetcher: the page pool                                        *)
(***************************************************************************)

NFetchers == 3
MaxPoolSize == 2
MaxFetchCalls == 4

Fetchers == 1..NFetchers

\* The fetcher after __aenter__: page_pool_size pages made and queued.
InitPool ==
    /\ \E page_pool_size \in 1..MaxPoolSize :
          /\ _pool_size = page_pool_size
          /\ _page_pool = [k \in 1..page_pool_size |-> k]
          /\ pagesMade = page_pool_size
          /\ fnArgs = [page_pool_size |-> page_pool_size]
    /\ fPage = [c \in Fetchers |-> 0]
    /\ fPc = [c \in Fetchers |-> "idle"]
    /\ fCalls = 0
    /\ RateLimiterInit(0, 1)
    /\ fnPc = "idle" /\ fnResult = <<>>
    /\ IdleLog /\ IdlePace /\ IdleRetry /\ IdleRun

PoolRest == UNCHANGED <<rlVars, fnVars, logVars, paceVars, retryVars, runVars>>

\* fetch(url) is called: context and queue exist (an asyncio.Queue object is
\* always true), so the call goes on to await self._page_pool.get().
FetchCall(c) ==
    /\ fPc[c] \in {"idle", "returned", "raised"}
    /\ fCalls < MaxFetchCalls
    /\ fCalls' = fCalls + 1
    /\ fPc' = [fPc EXCEPT ![c] = "get"]
    /\ UNCHANGED <<_pool_size, _page_pool, fPage, pagesMade>>
    /\ PoolRest

\* self._page_pool.get() returns a page; it blocks while the queue is empty.
FetchGetsPage(c) ==
    /\ fPc[c] = "get"
    /\ _page_pool # <<>>
    /\ fPage' = [fPage EXCEPT ![c] = Head(_page_pool)]
    /\ _page_pool' = Tail(_page_pool)
    /\ fPc' = [fPc EXCEPT ![c] = "page"]
    /\ UNCHANGED <<_pool_size, pagesMade, fCalls>>
    /\ PoolRest

\* The try block ends, by a return or by the except clause; the finally
\* clause calls _return_page_to_pool.
FetchBodyEnds(c) ==
    /\ fPc[c] = "page"
    /\ fPc' = [fPc EXCEPT ![c] = "reset"]
    /\ UNCHANGED <<_pool_size, _page_pool, fPage, pagesMade, fCalls>>
    /\ PoolRest

\* page.goto("about:blank") works and the page is put back.
ResetOk(c) ==
    /\ fPc[c] = "reset"
    /\ _page_pool' = Append(_page_pool, fPage[c])
    /\ fPage' = [fPage EXCEPT ![c] = 0]
    /\ fPc' = [fPc EXCEPT ![c] = "returned"]
    /\ UNCHANGED <<_pool_size, pagesMade, fCalls>>
    /\ PoolRest

\* The reset raises; the page is closed.
ResetFails(c) ==
    /\ fPc[c] = "reset"
    /\ fPc' = [fPc EXCEPT ![c] = "replace"]
    /\ UNCHANGED <<_pool_size, _page_pool, fPage, pagesMade, fCalls>>
    /\ PoolRest

\* self._context.new_page() works and the new page is put into the queue.
ReplaceOk(c) ==
    /\ fPc[c] = "replace"
    /\ pagesMade' = pagesMade + 1
    /\ _page_pool' = Append(_page_pool, pagesMade + 1)
    /\ fPage' = [fPage EXCEPT ![c] = 0]
    /\ fPc' = [fPc EXCEPT ![c] = "returned"]
    /\ UNCHANGED <<_pool_size, fCalls>>
    /\ PoolRest

\* A failed replacement that leaves self._pool_size as it was.
pool_size_after_loss_unchanged(size) == size

\* self._pool_size -= 1
pool_size_after_loss(size) == size - 1

\* new_page() raises: the pool shrinks, and RuntimeError leaves fetch() when
\* no page is left.
ReplaceFails(c) ==
    /\ fPc[c] = "replace"
    /\ _pool_size' = pool_size_after_loss(_pool_size)
    /\ fPage' = [fPage EXCEPT ![c] = 0]
    /\ fPc' = [fPc EXCEPT ![c] =
                  IF _pool_size' <= 0 THEN "raised" ELSE "returned"]
    /\ UNCHANGED <<_page_pool, pagesMade, fCalls>>
    /\ PoolRest

\* What the event loop does for a fetch() that was called.
FetchStep(c) ==
    \/ FetchGetsPage(c)
    \/ FetchBodyEnds(c)
    \/ ResetOk(c)
    \/ ResetFails(c)
    \/ ReplaceOk(c)
    \/ ReplaceFails(c)

NextPool ==
    \/ \E c \in Fetchers : FetchCall(c)
    \/ \E c \in Fetchers : FetchGetsPage(c)
    \/ \E c \in Fetchers : FetchBodyEnds(c)
    \/ \E c \in Fetchers : ResetOk(c)
    \/ \E c \in Fetchers : ResetFails(c)
    \/ \E c \in Fetchers : ReplaceOk(c)
    \/ \E c \in Fetchers : ReplaceFails(c)

\* The event loop runs every coroutine that is able to continue.
SpecPool ==
    InitPool /\ [][NextPool]_vars /\ \A c \in Fetchers : WF_vars(FetchStep(c))

\* C12: once the pool's effective size is zero, a fetch() that waits for a
\* page (it was waiting already, or was called afterwards) ends, with a
\* result or an exception.
C12_FetchEndsOnceAllPagesLost ==
    \A c \in Fetchers :
        (_pool_size <= 0 /\ fPc[c] = "get") ~> (fPc[c] \in {"returned", "raised"})

(***************************************************************************)
(* HTML as BeautifulSoup sees it                                           *)
(***************************************************************************)

\* A node of the tree is a string or an element with children.  An HTML
\* string is the sequence of its top nodes in which no two strings are
\* neighbours: a string has no boundaries inside a run of text.
TextNode(s) == [tag |-> "#text", text |-> s, kids |-> <<>>]
Element(tag, kids) == [tag |-> tag, text |-> "", kids |-> kids]
IsText(n) == n.tag = "#text"

\* str.strip() on text made of letters and blanks.
RECURSIVE LStrip(_)
LStrip(s) ==
    IF s = "" THEN ""
    ELSE IF SubSeq(s, 1, 1) = " " THEN LStrip(SubSeq(s, 2, Len(s)))
    ELSE s

RECURSIVE RStrip(_)
RStrip(s) ==
    IF s = "" THEN ""
    ELSE IF SubSeq(s, Len(s), Len(s)) = " " THEN RStrip(SubSeq(s, 1, Len(s) - 1))
    ELSE s

Strip(s) == RStrip(LStrip(s))

\* str(soup): the nodes written out one after the other, so that strings
\* which had become neighbours are one run of text.
RECURSIVE Serialise(_)
Serialise(nodes) ==
    IF nodes = <<>> THEN <<>>
    ELSE LET n == Head(nodes)
             rest == Serialise(Tail(nodes))
         IN  IF IsText(n)
             THEN IF rest # <<>> /\ IsText(Head(rest))
                  THEN <<TextNode(n.text \o Head(rest).text)>> \o Tail(rest)
                  ELSE <<n>> \o rest
             ELSE <<Element(n.tag, Serialise(n.kids))>> \o rest

\* BeautifulSoup(html, "lxml"): the lxml builder puts a fragment into
\* html and body elements.
Parse(html) ==
    IF html = <<>> THEN <<>>
    ELSE IF Len(html) = 1 /\ html[1].tag = "html" THEN html
    ELSE IF Len(html) = 1 /\ html[1].tag = "body" THEN <<Element("html", html)>>
    ELSE <<Element("html", <<Element("body", html)>>)>>

\* The strings below the nodes, stripped, the empty ones left out.
RECURSIVE StrippedStrings(_)
StrippedStrings(nodes) ==
    IF nodes = <<>> THEN <<>>
    ELSE LET n == Head(nodes)
         IN  (IF IsText(n)
              THEN IF Strip(n.text) = "" THEN <<>> ELSE <<Strip(n.text)>>
              ELSE StrippedStrings(n.kids))
             \o StrippedStrings(Tail(nodes))

RECURSIVE Join(_, _)
Join(strings, separator) ==
    IF strings = <<>> THEN ""
    ELSE IF Len(strings) = 1 THEN strings[1]
    ELSE strings[1] \o separator \o Join(Tail(strings), separator)

\* get_text(separator=separator, strip=True)
get_text(nodes, separator) == Join(StrippedStrings(nodes), separator)

\* elem.find([...]): some element below has one of the tags.
RECURSIVE FindsTag(_, _)
FindsTag(nodes, tags) ==
    \E k \in 1..Len(nodes) :
        nodes[k].tag \in tags \/ FindsTag(nodes[k].kids, tags)

\* for elem in soup.select(selector): elem.decompose(), for selectors that
\* name a tag.
RECURSIVE Decompose(_, _)
Decompose(nodes, tags) ==
    IF nodes = <<>> THEN <<>>
    ELSE LET n == Head(nodes)
         IN  (IF IsText(n) THEN <<n>>
              ELSE IF n.tag \in tags THEN <<>>
              ELSE <<Element(n.tag, Decompose(n.kids, tags))>>)
             \o Decompose(Tail(nodes), tags)

(***************************************************************************)
(* ContentExtractor._clean_content                                         *)
(***************************************************************************)

_PRESERVE_TAGS ==
    {"details", "summary", "table", "thead", "tbody", "tfoot", "tr", "th",
     "td", "ul", "ol", "li", "dl", "dt", "dd", "pre", "code", "svg", "path"}

\* The selectors of ExtractorConfig.remove_selectors that the pages of the
\* model can match.
remove_selectors == {"nav"}

\* An emptiness test that looks at the element's own strings only.
is_empty_own_text_only(elem) ==
    /\ elem.tag \notin _PRESERVE_TAGS
    /\ elem.tag \notin {"img", "br", "hr"}
    /\ \A k \in 1..Len(elem.kids) :
          IsText(elem.kids[k]) => Strip(elem.kids[k].text) = ""

\* The test of the pruning loop on an element whose descendants the loop
\* has visited already.
is_empty(elem) ==
    /\ elem.tag \notin _PRESERVE_TAGS
    /\ elem.tag \notin {"img", "br", "hr"}
    /\ get_text(elem.kids, "") = ""
    /\ ~FindsTag(elem.kids, {"img", "video", "audio", "iframe"})

\* for elem in reversed(soup.find_all()): every element is visited after
\* all of its descendants, and decompose() leaves the strings around the
\* element as they are.
RECURSIVE prune(_)
prune(nodes) ==
    IF nodes = <<>> THEN <<>>
    ELSE LET n == Head(nodes)
             visited == Element(n.tag, prune(n.kids))
         IN  (IF IsText(n) THEN <<n>>
              ELSE IF is_empty(visited) THEN <<>>
              ELSE <<visited>>)
             \o prune(Tail(nodes))

ExtractedContent(html, title, text) ==
    [html |-> html, title |-> title, text |-> text]

\* The soup _clean_content hands to the pruning loop.
soup_before_pruning(content) == Decompose(Parse(content.html), remove_selectors)

\* content.html, content.text and the post-clean length check.
post_clean_check(content, soup, min_content_length) ==
    LET text == get_text(soup, " ")
    IN  IF text # "" /\ Len(text) < min_content_length
        THEN ExtractedContent(<<>>, content.title, "")
        ELSE ExtractedContent(Serialise(soup), content.title, text)

_clean_content(content, min_content_length) ==
    IF content.html = <<>> THEN content
    ELSE post_clean_check(content, prune(soup_before_pruning(content)),
                          min_content_length)

(***************************************************************************)
(* _clean_content applied once and then again to its own result            *)
(***************************************************************************)

MaxInline == 3

\* What a paragraph or a cell may hold: text, blank text, an empty element
\* (an anchor without text), an image and an embedded frame.
InlineNodes ==
    {TextNode("a"), TextNode(" "), Element("span", <<>>), Element("img", <<>>),
     Element("iframe", <<>>)}

Inlines == {Serialise(l) : l \in ListsUpTo(InlineNodes, MaxInline)}

Paragraph(inl) == <<Element("p", inl)>>

WithNav(inl) == <<Element("div", <<Element("nav", <<TextNode("a")>>)>> \o inl)>>

\* A details element whose text sits two levels down, and a table with an
\* empty thead and one body row.
Schema(inl) ==
    <<Element("div",
        <<Element("details",
            <<Element("div", <<Element("span", inl)>>)>>),
          Element("table",
            <<Element("thead", <<>>),
              Element("tbody", <<Element("tr", <<Element("td", inl)>>)>>)>>)>>)>>

CleanInputs ==
    {Paragraph(inl) : inl \in Inlines}
        \cup {WithNav(inl) : inl \in Inlines}
        \cup {Schema(inl) : inl \in Inlines}

\* ExtractorConfig.min_content_length, an integer >= 0.
MinLengths == {0, 1, 3, 4}

CleanCall(content, min_content_length) ==
    [content |-> _clean_content(content, min_content_length),
     soup_before |-> soup_before_pruning(content),
     soup_after |-> prune(soup_before_pruning(content))]

InitClean ==
    /\ fnPc = "ready"
    /\ \E html \in CleanInputs, m \in MinLengths :
          fnArgs = [content |-> ExtractedContent(html, "t", get_text(html, " ")),
                    min_content_length |-> m]
    /\ fnResult = <<>>
    /\ RateLimiterInit(0, 1)
    /\ IdlePool /\ IdleLog /\ IdlePace /\ IdleRetry /\ IdleRun

FnRest == UNCHANGED <<rlVars, poolVars, logVars, paceVars, retryVars, runVars>>

\* content = self._clean_content(content)
CallCleanContent ==
    /\ fnPc = "ready"
    /\ fnPc' = "once"
    /\ fnResult' = <<CleanCall(fnArgs.content, fnArgs.min_content_length)>>
    /\ UNCHANGED fnArgs
    /\ FnRest

\* _clean_content applied to the content it returned.
CallCleanContentAgain ==
    /\ fnPc = "once"
    /\ fnPc' = "twice"
    /\ fnResult' = Append(fnResult,
                          CleanCall(fnResult[1].content, fnArgs.min_content_length))
    /\ UNCHANGED fnArgs
    /\ FnRest

NextClean == CallCleanContent \/ CallCleanContentAgain

SpecClean == InitClean /\ [][NextClean]_vars

\* The tree without the elements that carry no visible text and without
\* the blank strings.
RECURSIVE TextSkeleton(_)
TextSkeleton(nodes) ==
    IF nodes = <<>> THEN <<>>
    ELSE LET n == Head(nodes)
         IN  (IF IsText(n)
              THEN IF Strip(n.text) = "" THEN <<>> ELSE <<n>>
              ELSE IF get_text(n.kids, "") = "" THEN <<>>
              ELSE <<Element(n.tag, TextSkeleton(n.kids))>>)
             \o TextSkeleton(Tail(nodes))

\* C18: the pruning pass removes no element whose subtree carries visible
\* text: the elements with text are the same, in the same places, before
\* and after the pass; a table with a populated body row and an empty
\* thead, and a details element whose text is in its descendants, stay.
C18_PruningKeepsElementsWithText ==
    \A k \in 1..Len(fnResult) :
        /\ TextSkeleton(fnResult[k].soup_after) = TextSkeleton(fnResult[k].soup_before)
        /\ \A tag \in {"table", "details", "thead"} :
              (/\ get_text(fnResult[k].soup_before, "") # ""
               /\ FindsTag(fnResult[k].soup_before, {tag}))
                  => FindsTag(fnResult[k].soup_after, {tag})

\* The pass ran on a page with text below a details element and in the
\* body row of a table whose thead is empty, and removed something else.
C18_Witness ==
    /\ fnPc = "once"
    /\ FindsTag(fnResult[1].soup_before, {"details"})
    /\ FindsTag(fnResult[1].soup_before, {"thead"})
    /\ get_text(fnResult[1].soup_before, "") # ""
    /\ FindsTag(fnResult[1].soup_after, {"details"})
    /\ FindsTag(fnResult[1].soup_after, {"table"})
    /\ fnResult[1].soup_after # fnResult[1].soup_before

\* C19: _clean_content applied to its own result removes no further element
\* and returns the same text as the first application.
C19_CleanContentIdempotentOnText ==
    fnPc = "twice" =>
        /\ fnResult[2].soup_after = fnResult[2].soup_before
        /\ fnResult[2].content.text = fnResult[1].content.text

(***************************************************************************)
(* ContentExtractor.extract                                                *)
(***************************************************************************)

\* An optional value: <<>> for None, <<v>> for v.
None == <<>>
Some(v) == <<v>>

\* The selectors of ExtractorConfig.content_selectors that the pages of the
\* model can match, in the order of the list.
content_selectors == <<"article", "main">>

\* soup.select_one(tag): the first element with that tag, in document order.
RECURSIVE select_one(_, _)
select_one(nodes, tag) ==
    IF nodes = <<>> THEN None
    ELSE LET n == Head(nodes)
             below == IF IsText(n) THEN None ELSE select_one(n.kids, tag)
         IN  IF ~IsText(n) /\ n.tag = tag THEN Some(n)
             ELSE IF below # None THEN below
             ELSE select_one(Tail(nodes), tag)

\* for selector in self.config.content_selectors: the first selector that
\* matches decides.
RECURSIVE first_match(_, _)
first_match(soup, selectors) ==
    IF selectors = <<>> THEN None
    ELSE IF select_one(soup, Head(selectors)) # None
         THEN select_one(soup, Head(selectors))
         ELSE first_match(soup, Tail(selectors))

\* len(html.strip()) == 0 for the page source.
IsBlank(html) == \A k \in 1..Len(html) : IsText(html[k]) /\ Strip(html[k].text) = ""

_pre_clean_html(html) == Serialise(Decompose(Parse(html), remove_selectors))

_extract_with_soup(html, require_selector) ==
    LET soup == Parse(html)
        selected == first_match(soup, content_selectors)
        main == IF selected # None THEN selected
                ELSE IF require_selector THEN None
                ELSE select_one(soup, "body")
    IN  IF main = None THEN None
        ELSE Some(ExtractedContent(Serialise(main), "t", get_text(main, " ")))

\* What trafilatura or readability may hand back for a page: nothing, the
\* page, or what is inside its body; with the text of that part, or with no
\* text at all.
LibraryResults(html) ==
    LET soup == Parse(html)
        body == select_one(soup, "body")
        parts == {soup} \cup (IF body = None THEN {} ELSE {body[1].kids})
    IN  {None}
            \cup {Some(ExtractedContent(Serialise(part), "t", get_text(part, " "))) :
                    part \in {q \in parts : q # <<>>}}
            \cup {Some(ExtractedContent(Serialise(part), "t", "")) :
                    part \in {q \in parts : q # <<>>}}

\* not content or (content.text and len(content.text) < min_content_length)
falls_through(content, min_content_length) ==
    \/ content = None
    \/ content[1].text # "" /\ Len(content[1].text) < min_content_length

\* extract() for given results of the two libraries.
extract(html, min_content_length, trafilatura, readability) ==
    IF html = <<>> \/ IsBlank(html) THEN [content |-> None, extraction_method |-> ""]
    ELSE
    LET cleaned_html == _pre_clean_html(html)
        targeted == _extract_with_soup(cleaned_html, TRUE)
        second == IF falls_through(trafilatura, min_content_length)
                  THEN [content |-> readability, method |-> "readability"]
                  ELSE [content |-> trafilatura, method |-> "trafilatura"]
        third == IF falls_through(second.content, min_content_length)
                 THEN [content |-> _extract_with_soup(cleaned_html, FALSE),
                       method |-> "beautifulsoup"]
                 ELSE second
    IN  IF /\ targeted # None
           /\ targeted[1].text # ""
           /\ Len(targeted[1].text) >= min_content_length
        THEN [content |-> Some(_clean_content(targeted[1], min_content_length)),
              extraction_method |-> "css_selector"]
        ELSE IF third.content # None
        THEN [content |-> Some(_clean_content(third.content[1], min_content_length)),
              extraction_method |-> third.method]
        ELSE [content |-> None, extraction_method |-> ""]

Article(inl) == <<Element("article", inl)>>

Page(body) == <<Element("html", <<Element("body", body)>>)>>

\* The page sources: the empty string, blanks only, and pages.
PageSources ==
    {<<>>, <<TextNode(" ")>>}
        \cup {Page(body) : body \in CleanInputs}
        \cup {Page(Article(inl)) : inl \in Inlines}

InitExtract ==
    /\ fnPc = "ready"
    /\ \E html \in PageSources, m \in MinLengths :
          fnArgs = [html |-> html, min_content_length |-> m]
    /\ fnResult = <<>>
    /\ RateLimiterInit(0, 1)
    /\ IdlePool /\ IdleLog /\ IdlePace /\ IdleRetry /\ IdleRun

\* content = extractor.extract(html, url)
CallExtract ==
    /\ fnPc = "ready"
    /\ fnPc' = "done"
    /\ \E trafilatura \in LibraryResults(_pre_clean_html(fnArgs.html)),
          readability \in LibraryResults(_pre_clean_html(fnArgs.html)) :
          fnResult' = <<extract(fnArgs.html, fnArgs.min_content_length,
                                trafilatura, readability)>>
    /\ UNCHANGED fnArgs
    /\ FnRest

NextExtract == CallExtract

SpecExtract == InitExtract /\ [][NextExtract]_vars

\* C13: extract returns for every input; content it returns with non-empty
\* html has a plain text of at least min_content_length characters after
\* cleanup; an empty or blank input gives no content.
C13_NoContentBelowMinLength ==
    fnPc = "done" =>
        LET result == fnResult[1].content
        IN  /\ (fnArgs.html = <<>> \/ IsBlank(fnArgs.html)) => result = None
            /\ (result # None /\ result[1].html # <<>>)
                  => Len(result[1].text) >= fnArgs.min_content_length

(***************************************************************************)
(* More properties of a run                                                *)
(***************************************************************************)

\* C14: without an explicit pattern and with a probe that returned a
\* FetchResult, the first URL's task ends with that very result and the
\* first URL was fetched exactly once in the run; exactly one task has the
\* probe result, and the fetches of every other URL are the attempts of its
\* own fetch_with_retry call.
C14_ProbeResultReusedByFirstTask ==
    (runPc = "returned" /\ ~config.pattern /\ probe_result # NoResult) =>
        /\ tFetch[1] = probe_result
        /\ fetches[urls[1]] = 1
        /\ Cardinality({i \in Tasks : tFetch[i] = probe_result}) = 1
        /\ \A i \in Tasks \ {1} :
              tFetch[i] # NoResult => fetches[urls[i]] = tFetch[i].attempts

\* The pages of the tasks that ended DONE, taken in the order of urls.
RECURSIVE PagesOfTasks(_)
PagesOfTasks(n) ==
    IF n = 0 THEN <<>>
    ELSE PagesOfTasks(n - 1) \o
            (IF page_timings[n].status = "done"
             THEN <<FormattedPage(urls[n], tFetch[n])>> ELSE <<>>)

\* C15: the pages handed to the writer are sorted by url, and they are the
\* sequence that the outcomes of the URLs determine, whatever the order in
\* which the tasks completed.
C15_PagesOrderIndependentOfCompletion ==
    runPc = "returned" =>
        /\ \A k \in 1..(Len(pages) - 1) :
              UrlRank(pages[k].url) <= UrlRank(pages[k + 1].url)
        /\ pages = SortByUrl(PagesOfTasks(Len(urls)))

(***************************************************************************)
(* A run, and a later run that is given the first run's failed-URL file    *)
(***************************************************************************)

\* The first run has no skip file.
InitRerun ==
    /\ InitRun
    /\ config.skip_set = {}
    /\ config.max_concurrent = 1
    /\ config.max_retries = 1

\* The program is started again with --skip-urls .failed-urls.txt on the
\* same site: a new Orchestrator and RateLimiter, and a discoverer that
\* yields the URLs it yielded before.
StartLaterRun ==
    /\ runPc = "returned"
    /\ runNo = 1
    /\ failed_urls_file # NoFile
    /\ runNo' = 2
    /\ skip_urls_file' = failed_urls_file
    /\ config' = [config EXCEPT !.skip_set = read_skip_file(failed_urls_file)]
    /\ runPc' = "discover"
    /\ urls' = discovered
    /\ probe_result' = NoResult
    /\ page_timings' = <<>> /\ pages' = <<>> /\ errors' = <<>>
    /\ skipped' = <<>> /\ skipped_categories' = <<>>
    /\ tPc' = <<>> /\ tFetch' = <<>> /\ tAttempt' = <<>>
    /\ fetches' = [u \in UrlChoices |-> 0]
    /\ acquired' = <<>> /\ released' = <<>> /\ backoffs' = <<>> /\ eases' = <<>>
    /\ statusLog' = <<>>
    /\ postDedup' = 0
    /\ delay_seconds' = original_delay
    /\ backoff_count' = 0
    /\ peak_delay' = original_delay
    /\ permits' = config.max_concurrent
    /\ lock' = 0
    /\ last_request_time' = 0
    /\ UNCHANGED <<original_delay, discovered, failed_urls_file>>
    /\ UNCHANGED <<fnVars, poolVars, logVars, paceVars, retryVars>>

NextRerun == Next \/ StartLaterRun

SpecRerun == InitRerun /\ [][NextRerun]_vars

\* The URLs on the lines of the file the later run was given.
FailedUrls == {skip_urls_file[k].url :
                  k \in {j \in 1..Len(skip_urls_file) : ~skip_urls_file[j].comment}}

\* C16: a run writes the failed-URL file iff errors is non-empty, with the
\* URL of every error on a line of its own; a later run given that file as
\* skip list, discovering the same URLs, has no PageTiming for any URL of
\* the file and never fetches one, and brings every other URL that
\* deduplication keeps to a terminal status.
C16_SidecarSkipsFailedUrls ==
    /\ (runNo = 1 /\ runPc = "returned") =>
          /\ (failed_urls_file # NoFile) <=> (errors # <<>>)
          /\ errors # <<>> =>
                /\ Len(failed_urls_file) = Len(errors) + 2
                /\ \A k \in 1..Len(errors) :
                      failed_urls_file[k + 2] = UrlLine(errors[k][1])
    /\ runNo = 2 =>
          /\ \A u \in FailedUrls :
                /\ fetches[u] = 0
                /\ \A i \in 1..Len(page_timings) : page_timings[i].url # u
          /\ runPc = "returned" =>
                \A k \in 1..Len(Dedup(discovered, {})) :
                    LET u == Dedup(discovered, {})[k]
                    IN  u \notin FailedUrls =>
                            \E i \in 1..Len(page_timings) :
                                /\ page_timings[i].url = u
                                /\ page_timings[i].status \in TerminalStatuses

\* The first run failed on the URL with a trailing slash and left a file;
\* the later run has returned with the other URL done.
C16_Witness ==
    /\ runNo = 2
    /\ runPc = "returned"
    /\ FailedUrls = {UrlASlash}
    /\ Len(page_timings) = 1
    /\ page_timings[1].url = UrlB
    /\ page_timings[1].status = "done"

(***************************************************************************)
(* _categorize_error as a function of its arguments                        *)
(***************************************************************************)

\* Status codes on both sides of every boundary of the classification; 0 is
\* what a fetch that raised and the pipeline handler pass.
StatusCodes == {0, 200, 302, 399, 400, 404, 428, 429, 430, 499, 500, 503, 599}

\* Error messages with and without the keywords, in either case.
ErrorMessages ==
    ExceptionMessages \cup
    {"", "HTTP 404", "request timed out", "Read Timeout", "Connection timed out",
     "DNS lookup failed", "Network is unreachable", "socket closed"}

Stages == {"fetch", "extract", "pipeline"}

InitCategorize ==
    /\ fnPc = "ready"
    /\ fnArgs \in [status_code : StatusCodes, error_msg : ErrorMessages,
                   stage : Stages]
    /\ fnResult = <<>>
    /\ RateLimiterInit(0, 1)
    /\ IdlePool /\ IdleLog /\ IdlePace /\ IdleRetry /\ IdleRun

\* category = self._categorize_error(status_code, error_msg, stage)
CallCategorizeError ==
    /\ fnPc = "ready"
    /\ fnPc' = "done"
    /\ fnResult' = <<_categorize_error(fnArgs.status_code, fnArgs.error_msg,
                                       fnArgs.stage)>>
    /\ UNCHANGED fnArgs
    /\ FnRest

NextCategorize == CallCategorizeError

SpecCategorize == InitCategorize /\ [][NextCategorize]_vars

ErrorCategories ==
    {"timeout", "rate_limited", "client_error", "server_error", "connection",
     "extraction", "unknown"}

\* The message, in lower case, holds one of the words.
HasWord(msg, words) == \E w \in words : Mentions(str_lower(msg), w)

\* C17: every (status code, message, stage) gets one category: by status
\* code whatever the message says (429 rate limited, 500 and above server
\* error, any other 4xx client error); only without such a status by the
\* message (timeout words first, then connection words); and only without
\* such words by the stage (extract or pipeline: extraction, else unknown).
C17_CategorizeByStatusThenMessageThenStage ==
    fnPc = "done" =>
        LET code == fnArgs.status_code
            msg == fnArgs.error_msg
            category == fnResult[1]
            by_status == code = 429 \/ code >= 400
            timeout_words == HasWord(msg, {"timeout", "timed out"})
            connection_words ==
                HasWord(msg, {"connect", "refused", "dns", "network", "socket"})
        IN  /\ category \in ErrorCategories
            /\ code = 429 => category = "rate_limited"
            /\ code >= 500 => category = "server_error"
            /\ (code >= 400 /\ code < 500 /\ code # 429) => category = "client_error"
            /\ (~by_status /\ timeout_words) => category = "timeout"
            /\ (~by_status /\ ~timeout_words /\ connection_words)
                  => category = "connection"
            /\ (~by_status /\ ~timeout_words /\ ~connection_words)
                  => category = IF fnArgs.stage \in {"extract", "pipeline"}
                                THEN "extraction" ELSE "unknown"

\* A server error whose message speaks of a connection timing out was
\* classified by its status code.
C17_Witness ==
    /\ fnPc = "done"
    /\ fnArgs.status_code = 503
    /\ fnArgs.error_msg = "Connection timed out"
    /\ fnResult = <<"server_error">>

(***************************************************************************)
(* acquire() under a delay that back_off() and ease_off() change: callers  *)
(* of acquire() whose page ends with HTTP 429, with a page or otherwise    *)
(***************************************************************************)

\* Most back_off() calls followed.
MaxBackOffs == 2

\* _process_page(): the fetch ended with status 429; back_off() is called
\* and the finally clause releases the limiter, with no await in between.
ThrottleFetch429(c) ==
    /\ cPc[c] = "holding"
    /\ backoff_count < MaxBackOffs
    /\ back_off
    /\ permits' = permits + 1
    /\ cPc' = [cPc EXCEPT ![c] = "idle"]
    /\ UNCHANGED <<original_delay, lock, last_request_time>>
    /\ UNCHANGED <<now, cWake, cDelay, starts>>
    /\ UNCHANGED <<fnVars, poolVars, logVars, retryVars, runVars>>

\* _process_page(): the page was formatted; ease_off() is called and the
\* finally clause releases the limiter.
ThrottlePageDone(c) ==
    /\ cPc[c] = "holding"
    /\ ease_off
    /\ permits' = permits + 1
    /\ cPc' = [cPc EXCEPT ![c] = "idle"]
    /\ UNCHANGED <<original_delay, backoff_count, peak_delay, lock,
                   last_request_time>>
    /\ UNCHANGED <<now, cWake, cDelay, starts>>
    /\ UNCHANGED <<fnVars, poolVars, logVars, retryVars, runVars>>

NextThrottle ==
    \/ Tick
    \/ \E c \in Callers :
          \/ PaceCall(c) \/ PaceSem(c) \/ PaceLock(c) \/ PaceRecord(c)
          \/ PaceRelease(c) \/ ThrottleFetch429(c) \/ ThrottlePageDone(c)

SpecThrottle == InitPace /\ [][NextThrottle]_vars

\* C20: a back_off() made for a 429 leaves delay_seconds strictly greater
\* than it was, unless the cap was already reached; every pacing check, of
\* any caller, reads the delay_seconds in force when it begins, and the
\* request start it records is at least that delay after the previous
\* request start.
C20_BackOffSlowsEveryTask ==
    [][ /\ (backoff_count' > backoff_count) =>
              (delay_seconds' > delay_seconds \/ delay_seconds >= _MAX_DELAY)
        /\ \A c \in Callers :
              /\ (cPc[c] = "lock" /\ cPc'[c] = "pacing") =>
                    cDelay'[c] = delay_seconds
              /\ (cPc[c] = "pacing" /\ cPc'[c] = "holding") =>
                    now' - last_request_time >= cDelay[c]
      ]_vars

\* The pacing half of C20 alone.
C20_PacingFollowsCurrentDelay ==
    [][ \A c \in Callers :
              /\ (cPc[c] = "lock" /\ cPc'[c] = "pacing") =>
                    cDelay'[c] = delay_seconds
              /\ (cPc[c] = "pacing" /\ cPc'[c] = "holding") =>
                    now' - last_request_time >= cDelay[c]
      ]_vars

(***************************************************************************)
(* The bounds of the adaptive delay                                        *)
(***************************************************************************)

\* C21: whatever the accepted initial delay and the back_off()/ease_off()
\* calls made, original_delay <= delay_seconds <= peak_delay in every
\* state, and original_delay never changes.
C21_DelayBetweenOriginalAndPeak ==
    /\ [](original_delay <= delay_seconds /\ delay_seconds <= peak_delay)
    /\ [][original_delay' = original_delay]_vars

\* The upper half of C21 and the constancy of original_delay alone.
C21_DelayAtMostPeak ==
    /\ [](delay_seconds <= peak_delay)
    /\ [][original_delay' = original_delay]_vars

(***************************************************************************)
(* run() when nothing is left to fetch                                     *)
(***************************************************************************)

\* C22: once discovery has finished without error run() never raises, and
\* when no URL is left (none discovered, or all removed by the skip set) it
\* returns a result with pages, errors, skipped, skipped_categories and
\* page_timings empty, having made no fetch.
C22_RunReturnsWhenNothingToFetch ==
    /\ runPc # "raised"
    /\ (runPc \notin {"discover", "idle"} /\ urls = <<>>) =>
          /\ runPc = "returned" \/ (runPc = "gather" /\ ENABLED GatherDone)
          /\ pages = <<>> /\ errors = <<>> /\ skipped = <<>>
          /\ skipped_categories = <<>> /\ page_timings = <<>>
          /\ \A u \in UrlChoices : fetches[u] = 0

\* C22 restricted to runs that were given a pattern, and to runs where no
\* URL was discovered at all.
C22_RunReturnsWithPatternOrNoDiscovery ==
    (config.pattern \/ discovered = <<>>) => C22_RunReturnsWhenNothingToFetch

(***************************************************************************)
(* Retries before a page is given up                                       *)
(***************************************************************************)

\* The tasks recorded in errors for a retryable fetch failure.
FailedRetryable ==
    {i \in DOMAIN tPc : /\ page_timings[i].status = "error"
                        /\ tFetch[i] # NoResult
                        /\ ~success(tFetch[i])
                        /\ _is_retryable(tFetch[i])}

\* C23: a URL, the probed first one included, is recorded in errors for a
\* retryable fetch failure only after max_retries + 1 fetch attempts of it.
C23_RetryableFailureAfterAllAttempts ==
    \A i \in FailedRetryable :
        /\ \E k \in 1..Len(errors) : errors[k][1] = urls[i]
        /\ fetches[urls[i]] >= config.max_retries + 1

\* C23 for the URLs whose fetch result is not the probe's.
C23_RetryableFailureAfterAllAttemptsUnprobed ==
    \A i \in FailedRetryable :
        (probe_result = NoResult \/ urls[i] # probe_result.url) =>
            fetches[urls[i]] >= config.max_retries + 1

(***************************************************************************)
(* The fallback chain of extract(), with the libraries' results in view    *)
(***************************************************************************)

InitFallback ==
    /\ fnPc = "ready"
    /\ \E html \in PageSources, m \in MinLengths :
          \E trafilatura \in LibraryResults(_pre_clean_html(html)),
             readability \in LibraryResults(_pre_clean_html(html)) :
              fnArgs = [html |-> html, min_content_length |-> m,
                        trafilatura |-> trafilatura, readability |-> readability]
    /\ fnResult = <<>>
    /\ RateLimiterInit(0, 1)
    /\ IdlePool /\ IdleLog /\ IdlePace /\ IdleRetry /\ IdleRun

\* content = extractor.extract(html, url), the two libraries answering as
\* fnArgs says.
CallExtractFallback ==
    /\ fnPc = "ready"
    /\ fnPc' = "done"
    /\ fnResult' = <<extract(fnArgs.html, fnArgs.min_content_length,
                             fnArgs.trafilatura, fnArgs.readability)>>
    /\ UNCHANGED fnArgs
    /\ FnRest

NextFallback == CallExtractFallback

SpecFallback == InitFallback /\ [][NextFallback]_vars

\* A strategy's result qualifies: there is one and its plain text has at
\* least min_content_length characters.
Qualifies(content, min_content_length) ==
    content # None /\ Len(content[1].text) >= min_content_length

\* The strategy the chain should accept, and its result.
FirstQualifying(html, min_content_length, trafilatura, readability) ==
    LET cleaned_html == _pre_clean_html(html)
        targeted == _extract_with_soup(cleaned_html, TRUE)
    IN  IF Qualifies(targeted, min_content_length)
        THEN [content |-> targeted, method |-> "css_selector"]
        ELSE IF Qualifies(trafilatura, min_content_length)
        THEN [content |-> trafilatura, method |-> "trafilatura"]
        ELSE IF Qualifies(readability, min_content_length)
        THEN [content |-> readability, method |-> "readability"]
        ELSE [content |-> _extract_with_soup(cleaned_html, FALSE),
              method |-> "beautifulsoup"]

\* C24: for a page that is not blank, extract() returns the cleaned result
\* of the first strategy, in the order selector-targeted, trafilatura,
\* readability, whole-body, whose plain text reaches min_content_length
\* (the whole-body result when none does), and extraction_method names that
\* strategy.
C24_FirstQualifyingStrategyWins ==
    (fnPc = "done" /\ fnArgs.html # <<>> /\ ~IsBlank(fnArgs.html)) =>
        LET want == FirstQualifying(fnArgs.html, fnArgs.min_content_length,
                                    fnArgs.trafilatura, fnArgs.readability)
            got == fnResult[1]
        IN  /\ got.content # None
            /\ got.extraction_method = want.method
            /\ got.content[1] =
                  _clean_content(want.content[1], fnArgs.min_content_length)

\* C24 where no strategy hands back a result with empty text.
C24_FirstQualifyingAmongNonEmptyTexts ==
    LET cleaned_html == _pre_clean_html(fnArgs.html)
        targeted == _extract_with_soup(cleaned_html, TRUE)
        with_text(c) == c = None \/ c[1].text # ""
    IN  (/\ fnPc = "done" /\ fnArgs.html # <<>> /\ ~IsBlank(fnArgs.html)
         /\ with_text(targeted) /\ with_text(fnArgs.trafilatura)
         /\ with_text(fnArgs.readability))
            => C24_FirstQualifyingStrategyWins

(***************************************************************************)
(* What the pruning pass may remove                                        *)
(***************************************************************************)

\* The elements of a tree, parents before children, in document order.
RECURSIVE Elements(_)
Elements(nodes) ==
    IF nodes = <<>> THEN <<>>
    ELSE LET n == Head(nodes)
         IN  (IF IsText(n) THEN <<>> ELSE <<n>> \o Elements(n.kids))
             \o Elements(Tail(nodes))

\* An element the pass may remove: no visible text, a tag outside the
\* preserved set, and no embedded media inside.
MayBePruned(elem) ==
    /\ get_text(elem.kids, "") = ""
    /\ elem.tag \notin _PRESERVE_TAGS
    /\ ~FindsTag(elem.kids, {"img", "video", "audio", "iframe"})

\* C25: the pruning pass removes an element only if it has no visible text,
\* its tag is not preserved and it contains no embedded media: of every
\* tag, the elements that may not be removed are all still there after the
\* pass.
C25_PruningRemovesOnlyEmptyUnpreserved ==
    \A k \in 1..Len(fnResult) :
        LET before == Elements(fnResult[k].soup_before)
            after == Elements(fnResult[k].soup_after)
        IN  \A tag \in {before[j].tag : j \in DOMAIN before} :
                Cardinality({j \in DOMAIN before :
                                before[j].tag = tag /\ ~MayBePruned(before[j])})
                    <= Cardinality({j \in DOMAIN after : after[j].tag = tag})

\* C25 for the elements that have visible text or an image inside.
C25_PruningKeepsTextAndImages ==
    \A k \in 1..Len(fnResult) :
        LET before == Elements(fnResult[k].soup_before)
            after == Elements(fnResult[k].soup_after)
        IN  \A tag \in {before[j].tag : j \in DOMAIN before} :
                Cardinality({j \in DOMAIN before :
                                /\ before[j].tag = tag
                                /\ \/ get_text(before[j].kids, "") # ""
                                   \/ FindsTag(before[j].kids, {"img"})})
                    <= Cardinality({j \in DOMAIN after : after[j].tag = tag})

(***************************************************************************)
(* ease_off() calls of a run                                               *)
(***************************************************************************)

C27_RetrySleepBounds ==
    /\ \A j \in 1..Len(rSleeps) :
          LET k == rSleeps[j].attempt
              delay == rSleeps[j].delay
              failed == rCalls[j]
          IN  /\ k = j - 1
              /\ k < rMaxRetries
              /\ ~success(failed) /\ _is_retryable(failed)
              /\ delay >= Min(rBaseDelay * Pow2(k), 60 * Second)
              /\ failed.retry_after # NoRetryAfter =>
                    delay >= Min(failed.retry_after, 60 * Second)
              /\ delay <= 60 * Second
    /\ Len(rSleeps) <= Len(rCalls)
    /\ rPc = "returned" => Len(rSleeps) = Len(rCalls) - 1

\* C27 witness: with base_delay = 30 s and max_retries = 2, a 429 with a
\* hint of 120 s was followed by a sleep of 60 s, a failure without hint by
\* a sleep of 60 s as well, and the third attempt was the last.
C27_Witness ==
    /\ rPc = "returned"
    /\ rMaxRetries = 2
    /\ rBaseDelay = 30 * Second
    /\ Len(rCalls) = 3 /\ Len(rSleeps) = 2
    /\ rCalls[1].retry_after = 120 * Second
    /\ rSleeps[1].delay = 60 * Second
    /\ rCalls[2].retry_after = NoRetryAfter
    /\ rSleeps[2].delay = 60 * Second
    /\ ~success(rResult)

(***************************************************************************)
(* The start times of all fetch calls: first attempts, retries, the probe  *)
(***************************************************************************)

\* Most retry fetches followed, and the lengths of the sleep before a retry
\* on the model's clock.
MaxRetryFetches == 2
RetryPauses == {1, 2}

\* run(): probe_result = await fetcher.fetch(first_url), made before any
\* page task exists and without rate_limiter.acquire().
FetchProbe ==
    /\ opLog = <<>> /\ starts = <<>>
    /\ \A c \in Callers : cPc[c] = "idle"
    /\ opLog' = <<[call |-> "probe", at |-> now]>>
    /\ UNCHANGED <<rlVars, fnVars, poolVars, paceVars, retryVars, runVars>>

\* fetch_with_retry: the fetch call made when acquire() returned gave a
\* retryable failure and is to be retried; await asyncio.sleep(delay)
\* begins.  The task keeps its slot.
FetchFailsRetryable(c) ==
    /\ cPc[c] = "holding"
    /\ Cardinality({x \in Callers : cPc[x] = "retry_sleep"})
          + Cardinality({k \in DOMAIN opLog : opLog[k].call = "retry"})
          < MaxRetryFetches
    /\ \E pause \in RetryPauses : cWake' = [cWake EXCEPT ![c] = now + pause]
    /\ cPc' = [cPc EXCEPT ![c] = "retry_sleep"]
    /\ UNCHANGED <<now, cDelay, starts>>
    /\ UNCHANGED <<rlVars, fnVars, poolVars, logVars, retryVars, runVars>>

\* fetch_with_retry: the sleep is over and the next iteration calls
\* self.fetch(url), without rate_limiter.acquire().
FetchRetry(c) ==
    /\ cPc[c] = "retry_sleep"
    /\ now >= cWake[c]
    /\ opLog' = Append(opLog, [call |-> "retry", at |-> now])
    /\ cWake' = [cWake EXCEPT ![c] = 0]
    /\ cPc' = [cPc EXCEPT ![c] = "holding"]
    /\ UNCHANGED <<now, cDelay, starts>>
    /\ UNCHANGED <<rlVars, fnVars, poolVars, retryVars, runVars>>

NextFetchStarts ==
    \/ NextPace
    \/ FetchProbe
    \/ \E c \in Callers : FetchFailsRetryable(c) \/ FetchRetry(c)

SpecFetchStarts == InitPace /\ [][NextFetchStarts]_vars

\* The start times of all fetch calls made: the first attempt of a task
\* starts when its acquire() returns.
FetchStartTimes ==
    starts \o [k \in DOMAIN opLog |-> opLog[k].at]

\* C28: any two fetch calls of a run, first attempts, retries and the probe
\* alike, start at least delay_seconds apart.
C28_EveryFetchPaced ==
    \A i, j \in DOMAIN FetchStartTimes :
        (i # j /\ FetchStartTimes[i] <= FetchStartTimes[j]) =>
            FetchStartTimes[j] - FetchStartTimes[i] >= delay_seconds

(***************************************************************************)
(* The result lists and the page statuses                                  *)
(***************************************************************************)

\* The page tasks whose PageTiming has the status.
WithStatus(status) == {i \in DOMAIN page_timings : page_timings[i].status = status}

\* C29: wherever a page task can be suspended, and when run() has returned,
\* the number of PageTimings that are DONE equals len(pages), the number
\* that are ERROR equals len(errors), and the number that are SKIPPED equals
\* len(skipped) + len(skipped_categories).
C29_ListsAgreeWithStatuses ==
    /\ Cardinality(WithStatus("done")) = Len(pages)
    /\ Cardinality(WithStatus("error")) = Len(errors)
    /\ Cardinality(WithStatus("skipped")) = Len(skipped) + Len(skipped_categories)

\* C29 witness: while one task is suspended in its fetch, another page is
\* done and a third URL was skipped as a category page after conversion or
\* by the pre-filter.
C29_Witness ==
    /\ runPc = "gather"
    /\ \E i, j \in DOMAIN tPc :
          /\ tPc[i] = "fetch" /\ page_timings[i].status = "fetching"
          /\ page_timings[j].status = "done"
    /\ Len(pages) = 1
    /\ Len(skipped_categories) = 1

(***************************************************************************)
(* The pages of the pool                                                   *)
(***************************************************************************)

\* The fetch() calls that have a page checked out: taken from the queue and
\* neither put back, replaced nor given up yet.
CheckedOut == {c \in Fetchers : fPc[c] \in {"page", "reset", "replace"}}

\* C30: the pages idle in the pool and the pages checked out by running
\* fetch() calls together number _pool_size; no page is held by two fetch()
\* calls or held and idle at once; at most page_pool_size fetches hold a
\* page at any time.
C30_PoolPagesAccountedFor ==
    /\ Len(_page_pool) + Cardinality(CheckedOut) = _pool_size
    /\ \A c \in Fetchers : (c \in CheckedOut) <=> (fPage[c] # 0)
    /\ \A c, d \in CheckedOut : c # d => fPage[c] # fPage[d]
    /\ \A c \in CheckedOut, k \in DOMAIN _page_pool : _page_pool[k] # fPage[c]
    /\ \A j, k \in DOMAIN _page_pool : j # k => _page_pool[j] # _page_pool[k]
    /\ Cardinality(CheckedOut) <= fnArgs.page_pool_size

\* C30 witness: of two pages one was lost when its replacement failed; the
\* fetch that lost it has completed, another fetch holds the remaining page
\* and a third one waits for it.
C30_Witness ==
    /\ fnArgs.page_pool_size = 2
    /\ _pool_size = 1
    /\ \E c, d, e \in Fetchers :
          /\ fPc[c] = "returned"
          /\ fPc[d] = "page"
          /\ fPc[e] = "get"
    /\ _page_pool = <<>>

====
